---- MODULE Spec2Model ----
(***************************************************************************)
(* State-machine model of wx-msg-api: the persistence gateway              *)
(* (wxRobotService), the three reconciliation schedulers, the HTTP         *)
(* handlers that write session rows, and the message-bot selection         *)
(* strategies.  Every database statement is one atomic step; a handler or  *)
(* a per-session scheduler step is the sequence of its statements.         *)
(***************************************************************************)
EXTENDS Integers, Sequences, FiniteSets, TLC

(***************************************************************************)
(* Bounds of the model                                                     *)
(***************************************************************************)
MaxSaves == 2        \* number of save-user requests (caps clock and session ids)
MaxGroupRows == 3    \* highest auto-increment id the group table hands out
MaxList == 2         \* length of an external group list
MaxRobots == 2       \* number of robot configs
MaxInFlight == 2     \* ticks and requests running at the same time
MaxSel == 3          \* GetMessageBot calls recorded per strategy instance
MaxTicks == 2        \* ticks of one job in flight at the same time
MaxSends == 2        \* send requests in flight at the same time
MaxStarted == 3      \* send requests started while requests run concurrently
MaxInsts == 3        \* strategy instances created while requests run concurrently

(***************************************************************************)
(* Program constants                                                       *)
(***************************************************************************)
StatusNormal == 1
StatusNeedRelogin == 3
CodeOK == 200
CodeRelogin == 300
CodeOther == 500

GroupIds == {"g1", "g2", "g3"}
GroupNickNames == {"a", "b"}

None == [id |-> 0]

VARIABLES
  robots,        \* wx_robot_configs: set of rows
  users,         \* wx_user_logins: set of rows
  groups,        \* wx_groups: set of rows
  nextUserId,    \* AUTO_INCREMENT of wx_user_logins
  nextGroupId,   \* AUTO_INCREMENT of wx_groups
  clock,         \* time.Now(), advanced by every save-user request
  saveReq,       \* saveUser handler in flight: the row it built, the row SaveUser found, the result
  loginJob,      \* DefaultLoginStatusScheduler.CheckLoginStatus in flight
  syncJob,       \* DefaultGroupSyncScheduler.SyncGroupsForAllUsers in flight
  initJob,       \* DefaultInitializationScheduler.CheckInitializationStatus in flight
  extReq,        \* extendAuth handler in flight
  lastSync,      \* what the last syncGroupsForUser call of the tick in flight saw and did
  strategy,      \* RouterManager.messageSendStrategy: the strategy instance in use
  sendReq,       \* sendText handler in flight: the candidate query, the pick, the response
  selLog,        \* the GetMessageBot calls the strategy instance in use has answered
  dbCalls,       \* SaveUser and SaveOrUpdateGroup calls between their lookup and their write
  apiCall,       \* the last call of the external API client: operation, reply, result
  cron,          \* per reconciliation job: its cron.Cron, the ticks in flight, its Stop() call
  sel,           \* send handlers running concurrently: the strategy instances created, the one in use, each request's position
  proc,          \* the process at shutdown: the HTTP server and the database connection pool
  stratReq       \* the last set-strategy request: the name it gave, the strategy it found, the HTTP status it got

vars == <<robots, users, groups, nextUserId, nextGroupId, clock, saveReq,
          loginJob, syncJob, initJob, extReq, lastSync, strategy, sendReq, selLog,
          dbCalls, apiCall, cron, sel, proc, stratReq>>

(***************************************************************************)
(* GORM primitives                                                         *)
(***************************************************************************)
\* db.Where(...).First(&row): the matching row with the smallest primary key
First(rows) == CHOOSE r \in rows : \A q \in rows : r.id <= q.id

\* db.Save(&row) with a primary key: UPDATE of all columns, INSERT when no
\* row has that key
DbSave(rows, row) == {r \in rows : r.id # row.id} \cup {row}

\* rows ordered by primary key, as a sequence
RECURSIVE SortById(_)
SortById(rows) ==
  IF rows = {} THEN <<>>
  ELSE LET r == First(rows) IN <<r>> \o SortById(rows \ {r})

(***************************************************************************)
(* External Robot API client (WxAPIClient).  A reply is what the remote    *)
(* endpoint answers: a transport failure or an envelope {Code, Data}.      *)
(***************************************************************************)
Transport == [kind |-> "transport"]
Envelope(code, data) == [kind |-> "envelope", code |-> code, data |-> data, text |-> ""]

\* what a client operation returns: the response, whether an error came with it and
\* what the error carries
Returned(resp) == [resp |-> resp, err |-> FALSE, text |-> ""]
Failed(resp, text) == [resp |-> resp, err |-> TRUE, text |-> text]

isSuccess(code) == code = CodeOK

\* CheckCanSetAlias returning every envelope without error
CheckCanSetAliasAnyCode(reply) ==
  IF reply.kind = "transport" THEN Failed(None, "transport")
  ELSE Returned(reply)

\* CheckCanSetAlias: Code 200 and Code 300 are both returned without error
CheckCanSetAlias(reply) ==
  IF reply.kind = "transport" THEN Failed(None, "transport")
  ELSE IF reply.code # CodeOK /\ reply.code # CodeRelogin
       THEN Failed(reply, reply.text)
       ELSE Returned(reply)

\* CheckLoginStatus with the test every other operation makes
CheckLoginStatusSuccessOnly(reply) ==
  IF reply.kind = "transport" THEN Failed(None, "transport")
  ELSE IF reply.code # CodeOK
       THEN Failed(reply, reply.text)
       ELSE Returned(reply)

\* CheckLoginStatus: the same test as CheckCanSetAlias
CheckLoginStatus(reply) ==
  IF reply.kind = "transport" THEN Failed(None, "transport")
  ELSE IF reply.code # CodeOK /\ reply.code # CodeRelogin
       THEN Failed(reply, reply.text)
       ELSE Returned(reply)

\* the operations that test isSuccess(resp.Code): only Code 200 is returned
\* without error
CallSuccessOnly(reply) ==
  IF reply.kind = "transport" THEN Failed(None, "transport")
  ELSE IF ~isSuccess(reply.code)
       THEN Failed(reply, reply.text)
       ELSE Returned(reply)

\* the application code of the envelope a call received, 0 when none arrived
RepliedCode(call) == IF call.resp = None THEN 0 ELSE call.resp.code

GetInitStatus(reply) == CallSuccessOnly(reply)
GetGroupList(reply) == CallSuccessOnly(reply)
DelayAuthKey(reply) == CallSuccessOnly(reply)
GenAuthKey(reply) == CallSuccessOnly(reply)
GetLoginQrCode(reply) == CallSuccessOnly(reply)
GetLoginStatus(reply) == CallSuccessOnly(reply)
GetChatRoomInfo(reply) == CallSuccessOnly(reply)

\* SendText without the tests on chat_send_ret_list
SendTextNoRetList(reply) ==
  IF reply.kind = "transport" THEN Failed(None, "transport")
  ELSE LET data == reply.data
       IN  IF Len(data) = 0 THEN Failed(None, "no data")
           ELSE IF ~data[1].isSendSuccess THEN Failed(None, "not sent")
           ELSE IF data[1].resp = None THEN Failed(None, "incomplete")
           ELSE IF data[1].resp.ret # 0 THEN Failed(None, data[1].resp.errMsg)
           ELSE Returned(data[1].resp)

\* SendText: the envelope's Code is logged and not tested; the first entry of Data
\* decides
SendText(reply) ==
  IF reply.kind = "transport" THEN Failed(None, "transport")
  ELSE LET data == reply.data
       IN  IF Len(data) = 0 THEN Failed(None, "no data")
           ELSE IF ~data[1].isSendSuccess THEN Failed(None, "not sent")
           ELSE IF data[1].resp = None THEN Failed(None, "incomplete")
           ELSE IF data[1].resp.ret # 0 THEN Failed(None, data[1].resp.errMsg)
           ELSE IF Len(data[1].resp.chatSendRetList) = 0 THEN Failed(None, "no result")
           ELSE IF data[1].resp.chatSendRetList[1].ret # 0 THEN Failed(None, "result ret")
           ELSE Returned(data[1].resp.chatSendRetList[1])

\* SendImage: likewise, with the entry's errMsg in the place of isSendSuccess
SendImage(reply) ==
  IF reply.kind = "transport" THEN Failed(None, "transport")
  ELSE LET data == reply.data
       IN  IF Len(data) = 0 THEN Failed(None, "no data")
           ELSE IF data[1].errMsg # "" THEN Failed(None, data[1].errMsg)
           ELSE IF data[1].resp = None THEN Failed(None, "incomplete")
           ELSE IF data[1].resp.ret # 0 THEN Failed(None, data[1].resp.errMsg)
           ELSE Returned(data[1].resp)

\* the operations of the client and the result each gives for a reply
ClientOps == {"GenAuthKey", "GetLoginQrCode", "CheckCanSetAlias", "CheckLoginStatus",
              "GetLoginStatus", "GetInitStatus", "DelayAuthKey", "GetChatRoomInfo",
              "GetGroupList", "SendText", "SendImage"}

ClientResult(op, reply) ==
  CASE op = "GenAuthKey" -> GenAuthKey(reply)
    [] op = "GetLoginQrCode" -> GetLoginQrCode(reply)
    [] op = "CheckCanSetAlias" -> CheckCanSetAlias(reply)
    [] op = "CheckLoginStatus" -> CheckLoginStatus(reply)
    [] op = "GetLoginStatus" -> GetLoginStatus(reply)
    [] op = "GetInitStatus" -> GetInitStatus(reply)
    [] op = "DelayAuthKey" -> DelayAuthKey(reply)
    [] op = "GetChatRoomInfo" -> GetChatRoomInfo(reply)
    [] op = "GetGroupList" -> GetGroupList(reply)
    [] op = "SendText" -> SendText(reply)
    [] op = "SendImage" -> SendImage(reply)

\* the replies of the external API: codes, texts, and the Data of the send endpoints
ApiCodes == {CodeOK, CodeRelogin, CodeOther}
ApiTexts == {"denied", "busy"}
SendRets == {0, -1}
ChatSendRetLists == {<<>>} \cup {<<[ret |-> r]>> : r \in SendRets}
TextResults ==
  [isSendSuccess : BOOLEAN, resp : {None}]
  \cup [isSendSuccess : BOOLEAN,
        resp : [ret : SendRets, errMsg : {"refused"}, chatSendRetList : ChatSendRetLists]]
ImageResults ==
  [errMsg : {"", "refused"}, isSendSuccess : BOOLEAN, resp : {None}]
  \cup [errMsg : {"", "refused"}, isSendSuccess : BOOLEAN,
        resp : [ret : SendRets, errMsg : {"refused"}]]

ApiData(op) ==
  CASE op = "SendText" -> {<<>>} \cup {<<r>> : r \in TextResults}
    [] op = "SendImage" -> {<<>>} \cup {<<r>> : r \in ImageResults}
    [] OTHER -> {<<>>}

ApiReplies(op) ==
  {Transport} \cup {[Envelope(code, data) EXCEPT !.text = text] :
                      code \in ApiCodes, data \in ApiData(op), text \in ApiTexts}

NoCall == [op |-> "none", reply |-> Transport, result |-> Failed(None, "")]

\* one call of a client operation: the request goes out, the reply is decoded
clientCall ==
  /\ \E op \in ClientOps : \E reply \in ApiReplies(op) :
       apiCall' = [op |-> op, reply |-> reply, result |-> ClientResult(op, reply)]
  /\ UNCHANGED <<robots, users, groups, nextUserId, nextGroupId, clock, saveReq,
                 loginJob, syncJob, initJob, extReq, lastSync,
                 strategy, sendReq, selLog, dbCalls, cron, sel, proc, stratReq>>

(***************************************************************************)
(* Persistence gateway (wxRobotService): sessions                          *)
(***************************************************************************)
\* GetRobotByID answering with a config for any id
GetRobotByIDAny(id) == {[id |-> id, address |-> "addr1"]}

GetRobotByID(id) == {r \in robots : r.id = id}

GetUsersByRobot(us, robotId) == {r \in us : r.robotId = robotId}

GetActiveUsers(us) == {r \in us : r.status = 1}

GetInitializedUsers(us) == {r \in us : r.isInitialized = 1 /\ r.status = 1}

\* GetUninitializedUsers without the status condition
GetUninitializedUsersAnyStatus(us) == {r \in us : r.isInitialized = 0}

GetUninitializedUsers(us) == {r \in us : r.isInitialized = 0 /\ r.status = 1}

\* SaveUser, first statement: Where("robot_id = ? AND wx_id = ?").First(&existingUser)
SaveUserFind(us, user) ==
  LET found == {r \in us : r.robotId = user.robotId /\ r.wxId = user.wxId}
  IN  IF found = {} THEN None ELSE First(found)

\* SaveUser's update row keeping the existing ID only
SaveUserUpdateRowIdOnly(user, existing) ==
  [user EXCEPT !.id = existing.id]

\* SaveUser, the row written when the pair exists: the caller's struct with the
\* existing ID and CreateTime
SaveUserUpdateRow(user, existing) ==
  [user EXCEPT !.id = existing.id, !.createTime = existing.createTime]

\* SaveUser, second statement: Save(user) when found, Create(user) otherwise
SaveUserStore(us, nid, now, user, existing, fault) ==
  IF fault = "lookup" \/ fault = "write"
  THEN [users |-> us, nextId |-> nid, err |-> TRUE]
  ELSE IF existing # None
       THEN [users |-> DbSave(us, SaveUserUpdateRow(user, existing)),
             nextId |-> nid, err |-> FALSE]
       ELSE [users |-> us \cup {[user EXCEPT !.id = nid, !.createTime = now]},
             nextId |-> nid + 1, err |-> FALSE]

SaveUser(us, nid, now, user, fault) ==
  SaveUserStore(us, nid, now, user, SaveUserFind(us, user), fault)

\* DeleteUser: First(&user, id) must find the row, then Delete
DeleteUser(us, id, fault) ==
  IF fault \/ {r \in us : r.id = id} = {}
  THEN [users |-> us, err |-> TRUE]
  ELSE [users |-> {r \in us : r.id # id}, err |-> FALSE]

\* an update by id that inserts the row when no row has the id, as Save does
UpdateUserStatusUpsert(us, userID, status) ==
  IF \E r \in us : r.id = userID
  THEN {IF r.id = userID THEN [r EXCEPT !.status = status] ELSE r : r \in us}
  ELSE us \cup {[id |-> userID, robotId |-> 0, token |-> "", wxId |-> "",
                 nickName |-> "", extensionTime |-> "", expirationTime |-> "",
                 hasSecurityRisk |-> 0, status |-> status, isInitialized |-> 0,
                 isMessageBot |-> 0, createTime |-> 0]}

\* result.RowsAffected of an UPDATE ... WHERE id = ?: no row is not an error
RowsAffected(us, userID) == Cardinality({r \in us : r.id = userID})

\* UpdateUserStatus that writes nothing
UpdateUserStatusSkipped(us, userID, status) == us

\* UpdateUserStatus done as Save of a struct that carries the id and the status:
\* the security-risk flag gets its zero value
UpdateUserStatusClearRisk(us, userID, status) ==
  {IF r.id = userID THEN [r EXCEPT !.status = status, !.hasSecurityRisk = 0]
   ELSE r : r \in us}

\* UpdateUserStatus without its WHERE clause: every row gets the status
UpdateUserStatusAllRows(us, userID, status) ==
  {[r EXCEPT !.status = status] : r \in us}

\* an initialization update that writes nothing
UpdateUserInitializationStatusSkipped(us, userID) == us

\* Model(&WxUserLogin{}).Where("id = ?").Update("status", status)
UpdateUserStatus(us, userID, status) ==
  {IF r.id = userID THEN [r EXCEPT !.status = status] ELSE r : r \in us}

UpdateUserInitializationStatus(us, userID) ==
  {IF r.id = userID THEN [r EXCEPT !.isInitialized = 1] ELSE r : r \in us}

\* UpdateMessageBotStatus done as Save of a struct that carries only the id and
\* the flag: the other columns get their zero values
UpdateMessageBotStatusSaveRow(us, userID, isMessageBot, fault) ==
  IF fault \/ {r \in us : r.id = userID} = {}
  THEN [users |-> us, err |-> TRUE]
  ELSE [users |-> {IF r.id = userID
                   THEN [r EXCEPT !.isMessageBot = isMessageBot, !.isInitialized = 0,
                                  !.status = 0, !.hasSecurityRisk = 0]
                   ELSE r : r \in us},
        err |-> FALSE]

\* UpdateMessageBotStatus: the row must exist, then a one-column update
UpdateMessageBotStatus(us, userID, isMessageBot, fault) ==
  IF fault \/ {r \in us : r.id = userID} = {}
  THEN [users |-> us, err |-> TRUE]
  ELSE [users |-> {IF r.id = userID THEN [r EXCEPT !.isMessageBot = isMessageBot]
                   ELSE r : r \in us},
        err |-> FALSE]

\* UpdateUserExtension, first statement: Where("robot_id = ? AND token = ?").First(&user)
UpdateUserExtensionFind(us, robotId, token) ==
  LET found == {r \in us : r.robotId = robotId /\ r.token = token}
  IN  IF found = {} THEN None ELSE First(found)

\* UpdateUserExtension, second statement: Save(&user) of the row read before
UpdateUserExtensionSave(us, user, newExpiry) ==
  DbSave(us, [user EXCEPT !.extensionTime = newExpiry, !.expirationTime = newExpiry])

(***************************************************************************)
(* Persistence gateway (wxRobotService): groups.  wx_groups carries        *)
(* UNIQUE KEY uk_wx_group (wx_id, group_id).  A result is                  *)
(* [groups, nextId, err, written, full]: the table, the auto-increment,    *)
(* whether the call returned an error, the keys of the rows it wrote, and  *)
(* whether the model's cap on row ids was hit.                             *)
(***************************************************************************)
GetGroupsByWxID(gs, wxID) == {g \in gs : g.wxId = wxID}

GroupKey(g) == <<g.wxId, g.groupId>>

\* SaveOrUpdateGroup without the Create branch: an unknown group is skipped
SaveOrUpdateGroupNoCreate(gs, nid, group, fault) ==
  LET found == {g \in gs : g.wxId = group.wxId /\ g.groupId = group.groupId}
      keep == [groups |-> gs, nextId |-> nid, err |-> FALSE, written |-> {}, full |-> FALSE]
  IN  IF found = {} \/ First(found).groupNickName = group.groupNickName THEN keep
      ELSE [keep EXCEPT !.groups = DbSave(gs, [First(found) EXCEPT
                                       !.groupNickName = group.groupNickName]),
                        !.written = {GroupKey(group)}]

\* SaveOrUpdateGroup, first statement: Where("wx_id = ? AND group_id = ?").First;
\* any error of the query, not only "not found", takes the Create branch
SaveOrUpdateGroupFind(gs, group, fault) ==
  LET found == {g \in gs : g.wxId = group.wxId /\ g.groupId = group.groupId}
  IN  IF fault = "lookup" \/ found = {} THEN None ELSE First(found)

\* Save(&existing) on wx_groups: UPDATE by primary key; when no row has the id,
\* INSERT ... ON DUPLICATE KEY UPDATE, which uk_wx_group turns into an update of
\* the row holding the pair
GroupSave(gs, row) ==
  IF \E g \in gs : g.id = row.id THEN DbSave(gs, row)
  ELSE IF \E g \in gs : GroupKey(g) = GroupKey(row)
       THEN {IF GroupKey(g) = GroupKey(row)
             THEN [g EXCEPT !.groupNickName = row.groupNickName] ELSE g : g \in gs}
       ELSE gs \cup {row}

\* SaveOrUpdateGroup's write on a table without uk_wx_group: Create never fails
\* on an existing pair
SaveOrUpdateGroupWriteNoUniqueKey(gs, nid, group, existing, fault) ==
  LET keep == [groups |-> gs, nextId |-> nid, err |-> FALSE, written |-> {}, full |-> FALSE]
  IN  IF fault = "write" THEN [keep EXCEPT !.err = TRUE]
      ELSE IF existing = None
           THEN IF nid > MaxGroupRows THEN [keep EXCEPT !.full = TRUE]
                ELSE [keep EXCEPT !.groups = gs \cup {[group EXCEPT !.id = nid]},
                                  !.nextId = nid + 1,
                                  !.written = {GroupKey(group)}]
           ELSE IF existing.groupNickName # group.groupNickName
                THEN [keep EXCEPT
                        !.groups = DbSave(gs, [existing EXCEPT
                                      !.groupNickName = group.groupNickName]),
                        !.written = {GroupKey(group)}]
                ELSE keep

\* SaveOrUpdateGroup's write without the comparison of the nicknames: a row
\* that was found is saved whenever the call is made
SaveOrUpdateGroupWriteAlways(gs, nid, group, existing, fault) ==
  LET keep == [groups |-> gs, nextId |-> nid, err |-> FALSE, written |-> {}, full |-> FALSE]
  IN  IF existing = None
      THEN IF fault = "write" \/ \E g \in gs : GroupKey(g) = GroupKey(group)
           THEN [keep EXCEPT !.err = TRUE]
           ELSE IF nid > MaxGroupRows
                THEN [keep EXCEPT !.full = TRUE]
                ELSE [keep EXCEPT !.groups = gs \cup {[group EXCEPT !.id = nid]},
                                  !.nextId = nid + 1,
                                  !.written = {GroupKey(group)}]
      ELSE IF fault = "write"
           THEN [keep EXCEPT !.err = TRUE]
           ELSE [keep EXCEPT
                   !.groups = GroupSave(gs, [existing EXCEPT
                                 !.groupNickName = group.groupNickName]),
                   !.written = {GroupKey(group)}]

\* SaveOrUpdateGroup, second statement: Create(group) when the lookup gave no
\* row (refused by uk_wx_group when the pair is in the table), otherwise
\* Save(&existing) when the nickname differs
SaveOrUpdateGroupWrite(gs, nid, group, existing, fault) ==
  LET keep == [groups |-> gs, nextId |-> nid, err |-> FALSE, written |-> {}, full |-> FALSE]
  IN  IF existing = None
      THEN IF fault = "write" \/ \E g \in gs : GroupKey(g) = GroupKey(group)
           THEN [keep EXCEPT !.err = TRUE]
           ELSE IF nid > MaxGroupRows
                THEN [keep EXCEPT !.full = TRUE]
                ELSE [keep EXCEPT !.groups = gs \cup {[group EXCEPT !.id = nid]},
                                  !.nextId = nid + 1,
                                  !.written = {GroupKey(group)}]
      ELSE IF existing.groupNickName # group.groupNickName
           THEN IF fault = "write"
                THEN [keep EXCEPT !.err = TRUE]
                ELSE [keep EXCEPT
                        !.groups = GroupSave(gs, [existing EXCEPT
                                      !.groupNickName = group.groupNickName]),
                        !.written = {GroupKey(group)}]
           ELSE keep

SaveOrUpdateGroup(gs, nid, group, fault) ==
  SaveOrUpdateGroupWrite(gs, nid, group, SaveOrUpdateGroupFind(gs, group, fault), fault)

\* DeleteGroupsByWxIDNotInList without the wx_id condition of its second
\* statement
DeleteGroupsOfAnyWxID(gs, wxID, groupIDs, fault) ==
  IF groupIDs = <<>>
  THEN IF fault THEN [groups |-> gs, err |-> TRUE]
       ELSE [groups |-> {g \in gs : g.wxId # wxID}, err |-> FALSE]
  ELSE IF fault THEN [groups |-> gs, err |-> TRUE]
       ELSE [groups |-> {g \in gs : \E i \in 1..Len(groupIDs) : groupIDs[i] = g.groupId},
             err |-> FALSE]

\* DeleteGroupsByWxIDNotInList where an empty list deletes nothing (NOT IN ())
DeleteGroupsKeepOnEmptyList(gs, wxID, groupIDs, fault) ==
  IF fault THEN [groups |-> gs, err |-> TRUE]
  ELSE [groups |-> {g \in gs : ~(g.wxId = wxID /\ groupIDs # <<>> /\
                                 \A i \in 1..Len(groupIDs) : groupIDs[i] # g.groupId)},
        err |-> FALSE]

DeleteGroupsByWxIDNotInList(gs, wxID, groupIDs, fault) ==
  IF groupIDs = <<>>
  THEN IF fault THEN [groups |-> gs, err |-> TRUE]
       ELSE [groups |-> {g \in gs : g.wxId # wxID}, err |-> FALSE]
  ELSE IF fault THEN [groups |-> gs, err |-> TRUE]
       ELSE [groups |-> {g \in gs : ~(g.wxId = wxID /\
                                      \A i \in 1..Len(groupIDs) : groupIDs[i] # g.groupId)},
             err |-> FALSE]

\* The fault, if any, injected into the k-th persistence call of a batch
FaultAt(plan, k) == IF plan.at = k THEN plan.kind ELSE "none"

\* the loop over groupResp.Data.GroupList of processGroupSync and saveGroupInfo:
\* one SaveOrUpdateGroup per listed group, stopping at the first error
RECURSIVE SaveGroupList(_, _, _, _, _)
SaveGroupList(st, wxID, list, i, plan) ==
  IF i > Len(list) \/ st.err \/ st.full THEN st
  ELSE LET r == SaveOrUpdateGroup(st.groups, st.nextId,
                  [id |-> 0, wxId |-> wxID, groupId |-> list[i].groupId,
                   groupNickName |-> list[i].groupNickName],
                  FaultAt(plan, i))
       IN  SaveGroupList([r EXCEPT !.written = st.written \cup r.written],
                         wxID, list, i + 1, plan)

GroupIdsOf(list) == [i \in 1..Len(list) |-> list[i].groupId]

\* a processGroupSync that runs the deletion pass after a failed upsert too
processGroupSyncDeleteAlways(gs, nid, wxID, list, plan) ==
  LET saved == SaveGroupList([groups |-> gs, nextId |-> nid, err |-> FALSE,
                              written |-> {}, full |-> FALSE], wxID, list, 1, plan)
      del == DeleteGroupsByWxIDNotInList(saved.groups, wxID, GroupIdsOf(list),
                                         plan.at = Len(list) + 1)
  IN  IF saved.full THEN saved
      ELSE [saved EXCEPT !.groups = del.groups, !.err = saved.err \/ del.err]

\* processGroupSync: upsert every listed group, then delete the rows of wxID
\* that are not listed
processGroupSync(gs, nid, wxID, list, plan) ==
  LET saved == SaveGroupList([groups |-> gs, nextId |-> nid, err |-> FALSE,
                              written |-> {}, full |-> FALSE], wxID, list, 1, plan)
      del == DeleteGroupsByWxIDNotInList(saved.groups, wxID, GroupIdsOf(list),
                                         plan.at = Len(list) + 1)
  IN  IF saved.err \/ saved.full THEN saved
      ELSE [saved EXCEPT !.groups = del.groups, !.err = del.err]

\* saveGroupInfo that saves the first listed group only
saveGroupInfoFirstOnly(gs, nid, wxID, groupResp, plan) ==
  LET st == [groups |-> gs, nextId |-> nid, err |-> FALSE, written |-> {}, full |-> FALSE]
  IN  IF groupResp.code # CodeOK \/ Len(groupResp.data) = 0 THEN st
      ELSE SaveGroupList(st, wxID, SubSeq(groupResp.data, 1, 1), 1, plan)

\* saveGroupInfo doing what processGroupSync does: the upsert loop followed by the
\* deletion pass
saveGroupInfoAndPrune(gs, nid, wxID, groupResp, plan) ==
  IF groupResp.code # CodeOK
  THEN [groups |-> gs, nextId |-> nid, err |-> FALSE, written |-> {}, full |-> FALSE]
  ELSE processGroupSync(gs, nid, wxID, groupResp.data, [plan EXCEPT !.at = 0])

\* saveGroupInfo of the initialization job: nothing to do for a non-200 code or
\* an empty list, otherwise the same upsert loop, without a deletion pass
saveGroupInfo(gs, nid, wxID, groupResp, plan) ==
  LET st == [groups |-> gs, nextId |-> nid, err |-> FALSE, written |-> {}, full |-> FALSE]
  IN  IF groupResp.code # CodeOK \/ Len(groupResp.data) = 0 THEN st
      ELSE SaveGroupList(st, wxID, groupResp.data, 1, plan)

(***************************************************************************)
(* Reconciliation schedulers.  A job record holds the tick in flight: the  *)
(* intake slice `users`, the index `i` of the next session, the counters   *)
(* the tick keeps, the value it returns, and `log`, one entry per session  *)
(* the loop has handled.                                                   *)
(***************************************************************************)
IdleLogin == [pc |-> "idle", users |-> <<>>, i |-> 0, log |-> <<>>,
              successCount |-> 0, errorCount |-> 0, reloginCount |-> 0, ret |-> "none",
              intakeErr |-> FALSE]
IdleSync == [pc |-> "idle", users |-> <<>>, i |-> 0, log |-> <<>>,
             successCount |-> 0, errorCount |-> 0, ret |-> "none", intakeErr |-> FALSE]
IdleInit == [pc |-> "idle", users |-> <<>>, i |-> 0, log |-> <<>>, ret |-> "none",
             intakeErr |-> FALSE]

\* the intake of a tick: the query fails, finds nothing, or yields the slice
Intake(idle, found, fault) ==
  IF fault THEN [idle EXCEPT !.pc = "done", !.ret = "err", !.intakeErr = TRUE]
  ELSE IF found = {} THEN [idle EXCEPT !.pc = "done", !.ret = "nil"]
  ELSE [idle EXCEPT !.pc = "run", !.users = SortById(found), !.i = 1]

\* a loop that returns at the first session whose processing failed
AdvanceStopOnError(job) ==
  IF job.i = Len(job.users) \/ job.log[Len(job.log)].outcome = "error"
  THEN [job EXCEPT !.i = job.i + 1, !.pc = "done", !.ret = "nil"]
  ELSE [job EXCEPT !.i = job.i + 1]

\* a loop that returns the error of the last session it handled
AdvanceReturnLastError(job) ==
  IF job.i = Len(job.users)
  THEN [job EXCEPT !.i = job.i + 1, !.pc = "done",
                   !.ret = IF job.log[Len(job.log)].outcome = "error" THEN "err"
                           ELSE "nil"]
  ELSE [job EXCEPT !.i = job.i + 1]

\* the loop moves to the next session and returns nil after the last one
Advance(job) ==
  IF job.i = Len(job.users)
  THEN [job EXCEPT !.i = job.i + 1, !.pc = "done", !.ret = "nil"]
  ELSE [job EXCEPT !.i = job.i + 1]

AliasReplies == {Transport, Envelope(CodeOK, FALSE), Envelope(CodeRelogin, FALSE),
                 Envelope(CodeOther, FALSE)}

\* ---- DefaultLoginStatusScheduler.CheckLoginStatus ----
LoginStart ==
  /\ loginJob.pc = "idle"
  /\ \E fault \in BOOLEAN :
       loginJob' = Intake(IdleLogin, GetActiveUsers(users), fault)
  /\ UNCHANGED <<robots, users, groups, nextUserId, nextGroupId, clock, saveReq,
                 syncJob, initJob, extReq, lastSync,
                 strategy, sendReq, selLog, dbCalls, apiCall, cron, sel, proc, stratReq>>

\* one iteration of the loop over the intake
LoginCheckUser(user, robotFault, reply, dbFault) ==
  LET robot == GetRobotByID(user.robotId)
      call == CheckCanSetAlias(reply)
      entry == [id |-> user.id, wxId |-> user.wxId, code |-> 0, outcome |-> "error",
                cause |-> "none", affected |-> 0]
  IN  IF robotFault \/ robot = {}
      THEN [users |-> users, entry |-> [entry EXCEPT !.cause = "db"]]
      ELSE IF call.err
      THEN [users |-> users,
            entry |-> [entry EXCEPT !.cause = "api", !.code = RepliedCode(call)]]
      ELSE IF call.resp.code = 300
      THEN IF dbFault
           THEN [users |-> users,
                 entry |-> [entry EXCEPT !.cause = "db", !.code = call.resp.code]]
           ELSE [users |-> UpdateUserStatus(users, user.id, 3),
                 entry |-> [entry EXCEPT !.outcome = "relogin", !.code = call.resp.code,
                                         !.affected = RowsAffected(users, user.id)]]
      ELSE [users |-> users,
            entry |-> [entry EXCEPT !.outcome = "success", !.code = call.resp.code]]

LoginProcess ==
  /\ loginJob.pc = "run"
  /\ \E robotFault \in BOOLEAN, reply \in AliasReplies, dbFault \in BOOLEAN :
       LET r == LoginCheckUser(loginJob.users[loginJob.i], robotFault, reply, dbFault)
           o == r.entry.outcome
       IN  /\ users' = r.users
           /\ loginJob' = Advance([loginJob EXCEPT
                 !.log = Append(@, r.entry),
                 !.successCount = IF o = "success" THEN @ + 1 ELSE @,
                 !.reloginCount = IF o = "relogin" THEN @ + 1 ELSE @,
                 !.errorCount = IF o = "error" THEN @ + 1 ELSE @])
  /\ UNCHANGED <<robots, groups, nextUserId, nextGroupId, clock, saveReq,
                 syncJob, initJob, extReq, lastSync,
                 strategy, sendReq, selLog, dbCalls, apiCall, cron, sel, proc, stratReq>>

LoginReturn ==
  /\ loginJob.pc = "done"
  /\ loginJob' = IdleLogin
  /\ UNCHANGED <<robots, users, groups, nextUserId, nextGroupId, clock, saveReq,
                 syncJob, initJob, extReq, lastSync,
                 strategy, sendReq, selLog, dbCalls, apiCall, cron, sel, proc, stratReq>>

\* ---- external group lists and fault plans ----
GroupItems == [groupId : GroupIds, groupNickName : GroupNickNames]

GroupLists == UNION {[1..n -> GroupItems] : n \in 0..MaxList}

NoFault == [at |-> 0, kind |-> "none"]

\* at most one failing persistence call per batch: call k of the upsert loop,
\* or call Len(list) + 1, the deletion pass or the flag update that follows it
Plans(list) ==
  {NoFault} \cup [at : 1..(Len(list) + 1), kind : {"lookup", "write"}]

\* ---- DefaultGroupSyncScheduler.SyncGroupsForAllUsers ----
SyncStart ==
  /\ syncJob.pc = "idle"
  /\ \E fault \in BOOLEAN :
       syncJob' = Intake(IdleSync, GetInitializedUsers(users), fault)
  /\ UNCHANGED <<robots, users, groups, nextUserId, nextGroupId, clock, saveReq,
                 loginJob, initJob, extReq, lastSync,
                 strategy, sendReq, selLog, dbCalls, apiCall, cron, sel, proc, stratReq>>

\* what the last syncGroupsForUser call saw and did: the rows of the wxId before
\* the call, the external list it received, the keys it wrote, whether it ran
\* through the deletion pass without error, whether a SaveOrUpdateGroup of the
\* upsert loop returned an error
NoSync == [wxId |-> "", listed |-> FALSE, synced |-> FALSE, list |-> <<>>,
           before |-> {}, written |-> {}, saveErr |-> FALSE]

\* syncGroupsForUser and processGroupSync for one session of the intake
syncGroupsForUser(user, robotFault, reply, plan) ==
  LET robot == GetRobotByID(user.robotId)
      call == GetGroupList(reply)
      keep == [groups |-> groups, nextId |-> nextGroupId, err |-> FALSE,
               written |-> {}, full |-> FALSE]
      entry == [id |-> user.id, wxId |-> user.wxId, code |-> 0, outcome |-> "error",
                cause |-> "none"]
      seen == [NoSync EXCEPT !.wxId = user.wxId,
                             !.before = GetGroupsByWxID(groups, user.wxId)]
  IN  IF robotFault \/ robot = {}
      THEN [st |-> keep, seen |-> seen, entry |-> [entry EXCEPT !.cause = "db"]]
      ELSE IF call.err
      THEN [st |-> keep, seen |-> seen,
            entry |-> [entry EXCEPT !.cause = "api", !.code = RepliedCode(call)]]
      ELSE IF call.resp.code # 200
      THEN [st |-> keep, seen |-> seen,
            entry |-> [entry EXCEPT !.outcome = "success", !.code = call.resp.code]]
      ELSE LET r == processGroupSync(groups, nextGroupId, user.wxId, call.resp.data, plan)
           IN  [st |-> r,
                seen |-> [seen EXCEPT !.listed = TRUE, !.synced = ~r.err,
                                      !.list = call.resp.data, !.written = r.written,
                                      !.saveErr = SaveGroupList(keep, user.wxId,
                                                    call.resp.data, 1, plan).err],
                entry |-> [entry EXCEPT
                             !.outcome = IF r.err THEN "error" ELSE "success",
                             !.cause = IF r.err THEN "db" ELSE "none",
                             !.code = call.resp.code]]

SyncInputs(lists) ==
  {<<TRUE, Transport, NoFault>>}
  \cup {<<FALSE, reply, NoFault>> : reply \in {Transport, Envelope(CodeOther, <<>>)}}
  \cup UNION {{<<FALSE, Envelope(CodeOK, l), plan>> : plan \in Plans(l)} : l \in lists}

SyncProcess(lists) ==
  /\ syncJob.pc = "run"
  /\ \E in \in SyncInputs(lists) :
       LET r == syncGroupsForUser(syncJob.users[syncJob.i], in[1], in[2], in[3])
           o == r.entry.outcome
       IN  /\ ~r.st.full
           /\ groups' = r.st.groups
           /\ nextGroupId' = r.st.nextId
           /\ lastSync' = r.seen
           /\ syncJob' = Advance([syncJob EXCEPT
                 !.log = Append(@, r.entry),
                 !.successCount = IF o = "success" THEN @ + 1 ELSE @,
                 !.errorCount = IF o = "error" THEN @ + 1 ELSE @])
  /\ UNCHANGED <<robots, users, nextUserId, clock, saveReq, loginJob, initJob, extReq,
                 strategy, sendReq, selLog, dbCalls, apiCall, cron, sel, proc, stratReq>>

SyncReturn ==
  /\ syncJob.pc = "done"
  /\ syncJob' = IdleSync
  /\ lastSync' = NoSync
  /\ UNCHANGED <<robots, users, groups, nextUserId, nextGroupId, clock, saveReq,
                 loginJob, initJob, extReq,
                 strategy, sendReq, selLog, dbCalls, apiCall, cron, sel, proc, stratReq>>

\* ---- DefaultInitializationScheduler.CheckInitializationStatus ----
InitReplies == {Transport, Envelope(CodeOK, TRUE), Envelope(CodeOK, FALSE),
                Envelope(CodeOther, FALSE)}

InitStart ==
  /\ initJob.pc = "idle"
  /\ \E fault \in BOOLEAN :
       initJob' = Intake(IdleInit, GetUninitializedUsers(users), fault)
  /\ UNCHANGED <<robots, users, groups, nextUserId, nextGroupId, clock, saveReq,
                 loginJob, syncJob, extReq, lastSync,
                 strategy, sendReq, selLog, dbCalls, apiCall, cron, sel, proc, stratReq>>

\* every group of the list has a row for wxID in the table
ListUpserted(gs, wxID, list) ==
  \A k \in 1..Len(list) :
    \E g \in gs : g.wxId = wxID /\ g.groupId = list[k].groupId

\* a processUser that removes the group rows of a session that is not yet
\* initialized
processUserClearPending(user, robotFault, initReply, groupsFault, groupReply, plan) ==
  LET robot == GetRobotByID(user.robotId)
      initCall == GetInitStatus(initReply)
      groupCall == GetGroupList(groupReply)
      keep == [groups |-> groups, nextId |-> nextGroupId, err |-> FALSE,
               written |-> {}, full |-> FALSE]
      entry == [id |-> user.id, wxId |-> user.wxId, code |-> 0, outcome |-> "error",
                cause |-> "none", affected |-> 0, polled |-> FALSE, ready |-> FALSE,
                fetched |-> FALSE, saveErr |-> FALSE, upserted |-> FALSE]
      fail(c) == [st |-> keep, users |-> users, entry |-> [entry EXCEPT !.cause = c]]
      asked == [entry EXCEPT !.polled = TRUE]
  IN  IF robotFault \/ robot = {} THEN fail("db")
      ELSE IF initCall.err THEN fail("api")
      ELSE IF ~(initCall.resp.code = 200 /\ initCall.resp.data)
      THEN IF groupsFault
           THEN [st |-> keep, users |-> users, entry |-> [asked EXCEPT !.cause = "db"]]
           ELSE [st |-> [keep EXCEPT !.groups = {g \in groups : g.wxId # user.wxId}],
                 users |-> users,
                 entry |-> [asked EXCEPT !.outcome = "pending"]]
      ELSE IF groupCall.err
      THEN [st |-> keep, users |-> users,
            entry |-> [asked EXCEPT !.cause = "api", !.ready = TRUE]]
      ELSE LET r == saveGroupInfo(groups, nextGroupId, user.wxId, groupCall.resp, plan)
               n == Len(groupCall.resp.data)
               seen == [asked EXCEPT !.ready = TRUE, !.fetched = TRUE,
                                     !.saveErr = r.err,
                                     !.upserted = ListUpserted(r.groups, user.wxId,
                                                               groupCall.resp.data)]
           IN  IF r.err
               THEN [st |-> r, users |-> users, entry |-> [seen EXCEPT !.cause = "db"]]
               ELSE IF plan.at = n + 1
               THEN [st |-> r, users |-> users, entry |-> [seen EXCEPT !.cause = "db"]]
               ELSE [st |-> r, users |-> UpdateUserInitializationStatus(users, user.id),
                     entry |-> [seen EXCEPT !.outcome = "initialized",
                                            !.affected = RowsAffected(users, user.id)]]

\* processUser for one session of the intake; the entry also records what the
\* call went through: `polled` GetInitStatus returned a status, `ready` the
\* status said initialized, `fetched` the
\* group list came back, `saveErr` saveGroupInfo returned an error, `upserted`
\* every fetched group has its row when saveGroupInfo returns
processUser(user, robotFault, initReply, groupsFault, groupReply, plan) ==
  LET robot == GetRobotByID(user.robotId)
      initCall == GetInitStatus(initReply)
      groupCall == GetGroupList(groupReply)
      keep == [groups |-> groups, nextId |-> nextGroupId, err |-> FALSE,
               written |-> {}, full |-> FALSE]
      entry == [id |-> user.id, wxId |-> user.wxId, code |-> 0, outcome |-> "error",
                cause |-> "none", affected |-> 0, polled |-> FALSE, ready |-> FALSE,
                fetched |-> FALSE, saveErr |-> FALSE, upserted |-> FALSE]
      fail(c) == [st |-> keep, users |-> users, entry |-> [entry EXCEPT !.cause = c]]
      asked == [entry EXCEPT !.polled = TRUE]
  IN  IF robotFault \/ robot = {} THEN fail("db")
      ELSE IF initCall.err THEN fail("api")
      ELSE IF ~(initCall.resp.code = 200 /\ initCall.resp.data)
      THEN IF groupsFault
           THEN [st |-> keep, users |-> users, entry |-> [asked EXCEPT !.cause = "db"]]
           ELSE [st |-> keep, users |-> users,
                 entry |-> [asked EXCEPT !.outcome = "pending"]]
      ELSE IF groupCall.err
      THEN [st |-> keep, users |-> users,
            entry |-> [asked EXCEPT !.cause = "api", !.ready = TRUE]]
      ELSE LET r == saveGroupInfo(groups, nextGroupId, user.wxId, groupCall.resp, plan)
               n == Len(groupCall.resp.data)
               seen == [asked EXCEPT !.ready = TRUE, !.fetched = TRUE,
                                     !.saveErr = r.err,
                                     !.upserted = ListUpserted(r.groups, user.wxId,
                                                               groupCall.resp.data)]
           IN  IF r.err
               THEN [st |-> r, users |-> users, entry |-> [seen EXCEPT !.cause = "db"]]
               ELSE IF plan.at = n + 1
               THEN [st |-> r, users |-> users, entry |-> [seen EXCEPT !.cause = "db"]]
               ELSE [st |-> r, users |-> UpdateUserInitializationStatus(users, user.id),
                     entry |-> [seen EXCEPT !.outcome = "initialized",
                                            !.affected = RowsAffected(users, user.id)]]

InitInputs(lists) ==
  {<<TRUE, Transport, FALSE, Transport, NoFault>>}
  \cup {<<FALSE, reply, gf, Transport, NoFault>> :
          reply \in InitReplies \ {Envelope(CodeOK, TRUE)}, gf \in BOOLEAN}
  \cup {<<FALSE, Envelope(CodeOK, TRUE), FALSE, reply, NoFault>> :
          reply \in {Transport, Envelope(CodeOther, <<>>)}}
  \cup UNION {{<<FALSE, Envelope(CodeOK, TRUE), FALSE, Envelope(CodeOK, l), plan>> :
                 plan \in Plans(l)} : l \in lists}

InitProcess(lists) ==
  /\ initJob.pc = "run"
  /\ \E in \in InitInputs(lists) :
       LET r == processUser(initJob.users[initJob.i], in[1], in[2], in[3], in[4], in[5])
       IN  /\ ~r.st.full
           /\ groups' = r.st.groups
           /\ nextGroupId' = r.st.nextId
           /\ users' = r.users
           /\ initJob' = Advance([initJob EXCEPT !.log = Append(@, r.entry)])
  /\ UNCHANGED <<robots, nextUserId, clock, saveReq, loginJob, syncJob, extReq, lastSync,
                 strategy, sendReq, selLog, dbCalls, apiCall, cron, sel, proc, stratReq>>

InitReturn ==
  /\ initJob.pc = "done"
  /\ initJob' = IdleInit
  /\ UNCHANGED <<robots, users, groups, nextUserId, nextGroupId, clock, saveReq,
                 loginJob, syncJob, extReq, lastSync,
                 strategy, sendReq, selLog, dbCalls, apiCall, cron, sel, proc, stratReq>>

(***************************************************************************)
(* The schedulers' cron.Cron (robfig/cron v3, built with cron.New and no    *)
(* job wrapper): Start runs the scheduling loop, every trigger starts the   *)
(* job function in a goroutine of its own, Stop ends the loop and hands     *)
(* back a context that is done once the goroutines in flight have ended.    *)
(* main starts the three schedulers in JobOrder and gracefulShutdown stops  *)
(* them in the same order.                                                  *)
(***************************************************************************)
JobOrder == <<"init", "sync", "login">>
Jobs == {JobOrder[k] : k \in 1..Len(JobOrder)}
Before(j) == {JobOrder[k] : k \in {n \in 1..Len(JobOrder) :
                                    \E m \in (n + 1)..Len(JobOrder) : JobOrder[m] = j}}

\* the scheduler as its constructor leaves it; `atStop` is the number of ticks
\* that were in flight when Stop() was called
NewCron == [running |-> FALSE, started |-> FALSE, ticks |-> 0, stop |-> "none",
            atStop |-> 0]

\* Stop() returning although ticks are in flight
StopDoneNoWait(c) == TRUE

\* <-ctx.Done(): the jobs in flight have ended
StopDone(c) == c.ticks = 0

\* Start(): AddFunc, then cron.Start()
schedulerStart(j) ==
  /\ ~cron[j].started
  /\ \A k \in Before(j) : cron[k].started
  /\ cron' = [cron EXCEPT ![j].started = TRUE, ![j].running = TRUE]
  /\ UNCHANGED <<robots, users, groups, nextUserId, nextGroupId, clock, saveReq,
                 loginJob, syncJob, initJob, extReq, lastSync,
                 strategy, sendReq, selLog, dbCalls, apiCall, sel, proc, stratReq>>

\* a schedule that fires whether or not its scheduling loop runs
tickFireAnyTime(j) ==
  /\ cron[j].started
  /\ cron[j].ticks < MaxTicks
  /\ cron' = [cron EXCEPT ![j].ticks = @ + 1]
  /\ UNCHANGED <<robots, users, groups, nextUserId, nextGroupId, clock, saveReq,
                 loginJob, syncJob, initJob, extReq, lastSync,
                 strategy, sendReq, selLog, dbCalls, apiCall, sel, proc, stratReq>>

\* the schedule fires: the job function starts in a new goroutine, whether or
\* not an earlier tick of the job is still running
tickFire(j) ==
  /\ cron[j].running
  /\ cron[j].ticks < MaxTicks
  /\ cron' = [cron EXCEPT ![j].ticks = @ + 1]
  /\ UNCHANGED <<robots, users, groups, nextUserId, nextGroupId, clock, saveReq,
                 loginJob, syncJob, initJob, extReq, lastSync,
                 strategy, sendReq, selLog, dbCalls, apiCall, sel, proc, stratReq>>

\* the job function of one tick returns
tickEnd(j) ==
  /\ cron[j].ticks > 0
  /\ cron' = [cron EXCEPT ![j].ticks = @ - 1]
  /\ UNCHANGED <<robots, users, groups, nextUserId, nextGroupId, clock, saveReq,
                 loginJob, syncJob, initJob, extReq, lastSync,
                 strategy, sendReq, selLog, dbCalls, apiCall, sel, proc, stratReq>>

\* Stop() up to ctx := s.cron.Stop(): the scheduling loop ends
schedulerStop(j) ==
  /\ \A k \in Jobs : cron[k].started
  /\ cron[j].stop = "none"
  /\ \A k \in Before(j) : cron[k].stop = "returned"
  /\ cron' = [cron EXCEPT ![j].running = FALSE, ![j].stop = "waiting",
                          ![j].atStop = cron[j].ticks]
  /\ UNCHANGED <<robots, users, groups, nextUserId, nextGroupId, clock, saveReq,
                 loginJob, syncJob, initJob, extReq, lastSync,
                 strategy, sendReq, selLog, dbCalls, apiCall, sel, proc, stratReq>>

\* Stop() from <-ctx.Done() to its return
schedulerStopReturn(j) ==
  /\ cron[j].stop = "waiting"
  /\ StopDone(cron[j])
  /\ cron' = [cron EXCEPT ![j].stop = "returned"]
  /\ UNCHANGED <<robots, users, groups, nextUserId, nextGroupId, clock, saveReq,
                 loginJob, syncJob, initJob, extReq, lastSync,
                 strategy, sendReq, selLog, dbCalls, apiCall, sel, proc, stratReq>>

\* main after its set-up: the server listens and the pool is open; `timedOut`
\* says that Shutdown returned at the end of its 30 seconds
Serving == [server |-> "serving", db |-> "open", timedOut |-> FALSE]

\* gracefulShutdown has passed the three Stop() calls
SchedulersStopped == \A k \in Jobs : cron[k].stop = "returned"

\* gracefulShutdown, server.Shutdown(ctx) called: the listeners close
serverShutdown ==
  /\ SchedulersStopped
  /\ proc.server = "serving"
  /\ proc' = [proc EXCEPT !.server = "closing"]
  /\ UNCHANGED <<robots, users, groups, nextUserId, nextGroupId, clock, saveReq,
                 loginJob, syncJob, initJob, extReq, lastSync,
                 strategy, sendReq, selLog, dbCalls, apiCall, cron, sel, stratReq>>

\* server.Shutdown(ctx) returns: the connections are idle, or the 30 seconds
\* of ctx are over and the error is logged
serverShutdownReturn ==
  /\ proc.server = "closing"
  /\ \E timedOut \in BOOLEAN :
       proc' = [proc EXCEPT !.server = "down", !.timedOut = timedOut]
  /\ UNCHANGED <<robots, users, groups, nextUserId, nextGroupId, clock, saveReq,
                 loginJob, syncJob, initJob, extReq, lastSync,
                 strategy, sendReq, selLog, dbCalls, apiCall, cron, sel, stratReq>>

\* gracefulShutdown, dbManager.Close()
dbClose ==
  /\ proc.server = "down"
  /\ proc.db = "open"
  /\ proc' = [proc EXCEPT !.db = "closed"]
  /\ UNCHANGED <<robots, users, groups, nextUserId, nextGroupId, clock, saveReq,
                 loginJob, syncJob, initJob, extReq, lastSync,
                 strategy, sendReq, selLog, dbCalls, apiCall, cron, sel, stratReq>>

(***************************************************************************)
(* HTTP handlers (RouterManager) that write robot and session rows         *)
(***************************************************************************)
\* createRobot: CreateRobot inserts one row
createRobot(address) ==
  /\ Cardinality(robots) < MaxRobots
  /\ robots' = robots \cup {[id |-> Cardinality(robots) + 1, address |-> address]}
  /\ UNCHANGED <<users, groups, nextUserId, nextGroupId, clock, saveReq,
                 loginJob, syncJob, initJob, extReq, lastSync,
                 strategy, sendReq, selLog, dbCalls, apiCall, cron, sel, proc, stratReq>>

\* updateRobot: the config must exist, then UpdateRobot saves it under its id
updateRobot(address) ==
  /\ \E id \in 1..MaxRobots, fault \in BOOLEAN :
       /\ GetRobotByID(id) # {}
       /\ robots' = IF fault THEN robots
                     ELSE DbSave(robots, [id |-> id, address |-> address])
  /\ UNCHANGED <<users, groups, nextUserId, nextGroupId, clock, saveReq,
                 loginJob, syncJob, initJob, extReq, lastSync,
                 strategy, sendReq, selLog, dbCalls, apiCall, cron, sel, proc, stratReq>>

\* a save-user request body
SaveRequest(robotId, wxId, token, nickName, hasSecurityRisk, isMessageBot) ==
  [robotId |-> robotId, wxId |-> wxId, token |-> token, nickName |-> nickName,
   hasSecurityRisk |-> hasSecurityRisk, isMessageBot |-> isMessageBot]

\* a probe that counts only when the reply has code 200
ProbedRiskOnlyOK(req, probe) ==
  LET call == CheckCanSetAlias(probe)
  IN  IF req.hasSecurityRisk = 0 /\ ~call.err /\ call.resp.code = CodeOK /\ call.resp.data
      THEN 1
      ELSE req.hasSecurityRisk

\* saveUser, the security-risk probe
ProbedRisk(req, probe) ==
  LET call == CheckCanSetAlias(probe)
  IN  IF req.hasSecurityRisk = 0 /\ ~call.err /\ call.resp.data THEN 1
      ELSE req.hasSecurityRisk

\* saveUser, the WxUserLogin it builds
BuildUser(req, hasRisk) ==
  [id |-> 0, robotId |-> req.robotId, token |-> req.token, wxId |-> req.wxId,
   nickName |-> req.nickName, extensionTime |-> "plus365d",
   expirationTime |-> "plus365d", hasSecurityRisk |-> hasRisk, status |-> 1,
   isInitialized |-> 0, isMessageBot |-> req.isMessageBot, createTime |-> 0]

\* no CheckCanSetAlias call was made
NoProbe == [kind |-> "none"]

\* `said` is has_security_risk of the request body, `probe` the reply to the
\* CheckCanSetAlias call of the request
IdleSave == [pc |-> "idle", called |-> FALSE, err |-> FALSE, user |-> None,
             existing |-> None, said |-> 0, probe |-> NoProbe]

\* saveUser up to its response: resolve the robot, probe, build the row, SaveUser
saveUser(reqs, probes) ==
  /\ saveReq.pc = "idle"
  /\ clock <= MaxSaves
  /\ \E req \in reqs, robotFault \in BOOLEAN, probe \in probes,
        fault \in {"none", "lookup", "write"} :
       LET robot == GetRobotByID(req.robotId)
           user == BuildUser(req, ProbedRisk(req, probe))
           r == SaveUser(users, nextUserId, clock, user, fault)
       IN  IF robotFault \/ robot = {}
           THEN /\ saveReq' = [IdleSave EXCEPT !.pc = "done", !.err = TRUE]
                /\ UNCHANGED <<users, nextUserId>>
           ELSE /\ saveReq' = [pc |-> "done", called |-> TRUE, err |-> r.err,
                               user |-> user,
                               existing |-> IF fault = "lookup" THEN None
                                            ELSE SaveUserFind(users, user),
                               said |-> req.hasSecurityRisk,
                               probe |-> IF req.hasSecurityRisk = 0 THEN probe
                                         ELSE NoProbe]
                /\ users' = r.users
                /\ nextUserId' = r.nextId
  /\ clock' = clock + 1
  /\ UNCHANGED <<robots, groups, nextGroupId, loginJob, syncJob, initJob, extReq, lastSync,
                 strategy, sendReq, selLog, dbCalls, apiCall, cron, sel, proc, stratReq>>

\* saveUser, the response is written and the request ends
saveUserReturn ==
  /\ saveReq.pc = "done"
  /\ saveReq' = IdleSave
  /\ UNCHANGED <<robots, users, groups, nextUserId, nextGroupId, clock,
                 loginJob, syncJob, initJob, extReq, lastSync,
                 strategy, sendReq, selLog, dbCalls, apiCall, cron, sel, proc, stratReq>>

\* ---- saveUser with SaveUser's two statements as two steps ----
\* the slot of the next call in flight
FreeSlot == CHOOSE k \in 1..MaxInFlight : k \notin {c.slot : c \in dbCalls}

\* saveUser up to SaveUser's First: resolve the robot, probe, build the row, look
\* the pair up; a failed robot lookup or a failed query ends the request
saveUserLookup(reqs, probes) ==
  /\ Cardinality(dbCalls) < MaxInFlight
  /\ clock <= MaxSaves
  /\ \E req \in reqs, robotFault \in BOOLEAN, probe \in probes, fault \in BOOLEAN :
       LET robot == GetRobotByID(req.robotId)
           user == BuildUser(req, ProbedRisk(req, probe))
       IN  dbCalls' = IF robotFault \/ robot = {} \/ fault THEN dbCalls
                      ELSE dbCalls \cup {[slot |-> FreeSlot, op |-> "SaveUser",
                                          row |-> user,
                                          found |-> SaveUserFind(users, user),
                                          done |-> FALSE, err |-> FALSE]}
  /\ clock' = clock + 1
  /\ UNCHANGED <<robots, users, groups, nextUserId, nextGroupId, saveReq,
                 loginJob, syncJob, initJob, extReq, lastSync,
                 strategy, sendReq, selLog, apiCall, cron, sel, proc, stratReq>>

\* saveUser from SaveUser's Save or Create to the response
saveUserWrite ==
  /\ \E call \in dbCalls, fault \in {"none", "write"} :
       /\ call.op = "SaveUser"
       /\ LET r == SaveUserStore(users, nextUserId, clock, call.row, call.found, fault)
          IN  /\ users' = r.users
              /\ nextUserId' = r.nextId
       /\ dbCalls' = dbCalls \ {call}
  /\ UNCHANGED <<robots, groups, nextGroupId, clock, saveReq,
                 loginJob, syncJob, initJob, extReq, lastSync,
                 strategy, sendReq, selLog, apiCall, cron, sel, proc, stratReq>>

\* ---- the upsert loop of a tick with SaveOrUpdateGroup's two statements as two
\* steps, and the deletion pass of the group-sync tick ----
\* the sessions some tick takes in: the initialization job's and the group-sync job's
TickIntake == GetUninitializedUsers(users) \cup GetInitializedUsers(users)

\* a tick's SaveOrUpdateGroup call for one listed group of one session, up to
\* the lookup
SaveOrUpdateGroupLookupStep(items) ==
  /\ Cardinality(dbCalls) < MaxInFlight
  /\ \E u \in TickIntake, item \in items, fault \in {"none", "lookup"} :
       LET group == [id |-> 0, wxId |-> u.wxId, groupId |-> item.groupId,
                     groupNickName |-> item.groupNickName]
       IN  dbCalls' = dbCalls \cup {[slot |-> FreeSlot, op |-> "SaveOrUpdateGroup",
                                     row |-> group,
                                     found |-> SaveOrUpdateGroupFind(groups, group, fault),
                                     done |-> FALSE, err |-> FALSE, wrote |-> FALSE]}
  /\ UNCHANGED <<robots, users, groups, nextUserId, nextGroupId, clock, saveReq,
                 loginJob, syncJob, initJob, extReq, lastSync,
                 strategy, sendReq, selLog, apiCall, cron, sel, proc, stratReq>>

\* the Create or Save of a SaveOrUpdateGroup call in flight
SaveOrUpdateGroupWriteStep ==
  /\ \E call \in dbCalls, fault \in {"none", "write"} :
       /\ call.op = "SaveOrUpdateGroup"
       /\ ~call.done
       /\ LET r == SaveOrUpdateGroupWrite(groups, nextGroupId, call.row, call.found, fault)
          IN  /\ ~r.full
              /\ groups' = r.groups
              /\ nextGroupId' = r.nextId
              /\ dbCalls' = (dbCalls \ {call})
                              \cup {[call EXCEPT !.done = TRUE, !.err = r.err,
                                                  !.wrote = r.written # {}]}
  /\ UNCHANGED <<robots, users, nextUserId, clock, saveReq,
                 loginJob, syncJob, initJob, extReq, lastSync,
                 strategy, sendReq, selLog, apiCall, cron, sel, proc, stratReq>>

\* SaveOrUpdateGroup returns to the tick's loop
SaveOrUpdateGroupReturnStep ==
  /\ \E call \in dbCalls :
       /\ call.op = "SaveOrUpdateGroup"
       /\ call.done
       /\ dbCalls' = dbCalls \ {call}
  /\ UNCHANGED <<robots, users, groups, nextUserId, nextGroupId, clock, saveReq,
                 loginJob, syncJob, initJob, extReq, lastSync,
                 strategy, sendReq, selLog, apiCall, cron, sel, proc, stratReq>>

\* processGroupSync's DeleteGroupsByWxIDNotInList for one session of the
\* group-sync intake
DeleteGroupsStep(lists) ==
  /\ \E u \in GetInitializedUsers(users), list \in lists, fault \in BOOLEAN :
       groups' = DeleteGroupsByWxIDNotInList(groups, u.wxId, GroupIdsOf(list), fault).groups
  /\ UNCHANGED <<robots, users, nextUserId, nextGroupId, clock, saveReq,
                 loginJob, syncJob, initJob, extReq, lastSync,
                 strategy, sendReq, selLog, dbCalls, apiCall, cron, sel, proc, stratReq>>

\* processGroupSync's DeleteGroupsByWxIDNotInList as a call of its own: the
\* statement runs and the call is kept with its arguments and its result
DeleteGroupsCallStep(lists) ==
  /\ Cardinality(dbCalls) < MaxInFlight
  /\ \E u \in GetInitializedUsers(users), list \in lists, fault \in BOOLEAN :
       LET r == DeleteGroupsByWxIDNotInList(groups, u.wxId, GroupIdsOf(list), fault)
       IN  /\ groups' = r.groups
           /\ dbCalls' = dbCalls \cup {[slot |-> FreeSlot,
                                        op |-> "DeleteGroupsByWxIDNotInList",
                                        wxID |-> u.wxId, groupIDs |-> GroupIdsOf(list),
                                        done |-> TRUE, err |-> r.err]}
  /\ UNCHANGED <<robots, users, nextUserId, nextGroupId, clock, saveReq,
                 loginJob, syncJob, initJob, extReq, lastSync,
                 strategy, sendReq, selLog, apiCall, cron, sel, proc, stratReq>>

\* DeleteGroupsByWxIDNotInList returns to processGroupSync
DeleteGroupsReturnStep ==
  /\ \E call \in dbCalls :
       /\ call.op = "DeleteGroupsByWxIDNotInList"
       /\ dbCalls' = dbCalls \ {call}
  /\ UNCHANGED <<robots, users, groups, nextUserId, nextGroupId, clock, saveReq,
                 loginJob, syncJob, initJob, extReq, lastSync,
                 strategy, sendReq, selLog, apiCall, cron, sel, proc, stratReq>>

UserIds == 1..MaxSaves

deleteUser ==
  /\ \E id \in UserIds, fault \in BOOLEAN :
       users' = DeleteUser(users, id, fault).users
  /\ UNCHANGED <<robots, groups, nextUserId, nextGroupId, clock, saveReq,
                 loginJob, syncJob, initJob, extReq, lastSync,
                 strategy, sendReq, selLog, dbCalls, apiCall, cron, sel, proc, stratReq>>

updateMessageBotStatus ==
  /\ \E id \in UserIds, isMessageBot \in {0, 1}, fault \in BOOLEAN :
       users' = UpdateMessageBotStatus(users, id, isMessageBot, fault).users
  /\ UNCHANGED <<robots, groups, nextUserId, nextGroupId, clock, saveReq,
                 loginJob, syncJob, initJob, extReq, lastSync,
                 strategy, sendReq, selLog, dbCalls, apiCall, cron, sel, proc, stratReq>>

\* ---- extendAuth: pick a token, DelayAuthKey, UpdateUserExtension ----
IdleExt == [pc |-> "idle", robotId |-> 0, token |-> "", user |-> None]

\* the first user of the robot with status 1 and a token
ExtendToken(us, robotId) ==
  LET valid == {r \in GetUsersByRobot(us, robotId) : r.status = 1 /\ r.token # ""}
  IN  IF valid = {} THEN "" ELSE First(valid).token

extendAuthPick ==
  /\ extReq.pc = "idle"
  /\ \E robotId \in 1..MaxRobots :
       /\ GetRobotByID(robotId) # {}
       /\ ExtendToken(users, robotId) # ""
       /\ extReq' = [IdleExt EXCEPT !.pc = "delay", !.robotId = robotId,
                                    !.token = ExtendToken(users, robotId)]
  /\ UNCHANGED <<robots, users, groups, nextUserId, nextGroupId, clock, saveReq,
                 loginJob, syncJob, initJob, lastSync,
                 strategy, sendReq, selLog, dbCalls, apiCall, cron, sel, proc, stratReq>>

extendAuthDelay ==
  /\ extReq.pc = "delay"
  /\ \E reply \in {Transport, Envelope(CodeOK, "expiry"), Envelope(CodeOther, "")} :
       LET found == UpdateUserExtensionFind(users, extReq.robotId, extReq.token)
       IN  extReq' = IF DelayAuthKey(reply).err \/ found = None THEN IdleExt
                     ELSE [extReq EXCEPT !.pc = "save", !.user = found]
  /\ UNCHANGED <<robots, users, groups, nextUserId, nextGroupId, clock, saveReq,
                 loginJob, syncJob, initJob, lastSync,
                 strategy, sendReq, selLog, dbCalls, apiCall, cron, sel, proc, stratReq>>

extendAuthSave ==
  /\ extReq.pc = "save"
  /\ \E fault \in BOOLEAN :
       users' = IF fault THEN users
                ELSE UpdateUserExtensionSave(users, extReq.user, "extended")
  /\ extReq' = IdleExt
  /\ UNCHANGED <<robots, groups, nextUserId, nextGroupId, clock, saveReq,
                 loginJob, syncJob, initJob, lastSync,
                 strategy, sendReq, selLog, dbCalls, apiCall, cron, sel, proc, stratReq>>

(***************************************************************************)
(* Message-bot selection (message_strategy.go) and the send handler        *)
(***************************************************************************)
NewRoundRobinMessageSendStrategy == [kind |-> "round_robin", currentIndex |-> 0]

NewRandomMessageSendStrategy == [kind |-> "random", currentIndex |-> 0]

\* one row of the candidate query: a session joined to its robot
messageBotQueryResult(u, r) ==
  [id |-> u.id, userToken |-> u.token, userWxId |-> u.wxId,
   userNickName |-> u.nickName, robotId |-> r.id, robotAddress |-> r.address]

\* the candidate query without its has_security_risk condition
queryMessageBotsAnyRisk(gs, us, rs, groupId, fault) ==
  LET joined == {p \in (gs \X us) \X rs :
                   /\ p[1][1].wxId = p[1][2].wxId
                   /\ p[1][2].robotId = p[2].id
                   /\ p[1][1].groupId = groupId
                   /\ p[1][2].status = 1
                   /\ p[1][2].isMessageBot = 1}
      rows == {messageBotQueryResult(p[1][2], p[2]) : p \in joined}
  IN  IF fault THEN [results |-> <<>>, err |-> "storage"]
      ELSE IF rows = {} THEN [results |-> <<>>, err |-> "no_bot"]
      ELSE [results |-> SortById(rows), err |-> "none"]

\* queryMessageBots: wx_groups JOIN wx_user_logins ON wx_id JOIN wx_robot_configs
\* ON robot_id, WHERE group_id = ? AND status = 1 AND is_message_bot = 1 AND
\* has_security_risk = 0; rows in primary-key order of the session
queryMessageBots(gs, us, rs, groupId, fault) ==
  LET joined == {p \in (gs \X us) \X rs :
                   /\ p[1][1].wxId = p[1][2].wxId
                   /\ p[1][2].robotId = p[2].id
                   /\ p[1][1].groupId = groupId
                   /\ p[1][2].status = 1
                   /\ p[1][2].isMessageBot = 1
                   /\ p[1][2].hasSecurityRisk = 0}
      rows == {messageBotQueryResult(p[1][2], p[2]) : p \in joined}
  IN  IF fault THEN [results |-> <<>>, err |-> "storage"]
      ELSE IF rows = {} THEN [results |-> <<>>, err |-> "no_bot"]
      ELSE [results |-> SortById(rows), err |-> "none"]

\* buildMessageBotInfo: the User and the Robot of the selected row
buildMessageBotInfo(result) ==
  [user |-> [id |-> result.id, token |-> result.userToken, wxId |-> result.userWxId,
             nickName |-> result.userNickName, robotId |-> result.robotId],
   robot |-> [id |-> result.robotId, address |-> result.robotAddress]]

NoBot == [user |-> None, robot |-> None]

\* a round robin that stores the index it selected instead of the next one
RoundRobinKeepIndex(s, q) ==
  IF q.err # "none"
  THEN [strategy |-> s, err |-> q.err, selectedIndex |-> 0, bot |-> NoBot]
  ELSE LET selectedIndex == s.currentIndex % Len(q.results)
       IN  [strategy |-> [s EXCEPT !.currentIndex = selectedIndex],
            err |-> "none", selectedIndex |-> selectedIndex,
            bot |-> buildMessageBotInfo(q.results[selectedIndex + 1])]

\* a round robin that moves its cursor by two
RoundRobinSkipOne(s, q) ==
  IF q.err # "none"
  THEN [strategy |-> s, err |-> q.err, selectedIndex |-> 0, bot |-> NoBot]
  ELSE LET selectedIndex == s.currentIndex % Len(q.results)
       IN  [strategy |-> [s EXCEPT !.currentIndex = (s.currentIndex + 2) % Len(q.results)],
            err |-> "none", selectedIndex |-> selectedIndex,
            bot |-> buildMessageBotInfo(q.results[selectedIndex + 1])]

\* a round robin whose cursor counts the selections and is never reduced
RoundRobinCountingCursor(s, q) ==
  IF q.err # "none"
  THEN [strategy |-> s, err |-> q.err, selectedIndex |-> 0, bot |-> NoBot]
  ELSE LET selectedIndex == s.currentIndex % Len(q.results)
       IN  [strategy |-> [s EXCEPT !.currentIndex = s.currentIndex + 1],
            err |-> "none", selectedIndex |-> selectedIndex,
            bot |-> buildMessageBotInfo(q.results[selectedIndex + 1])]

\* RoundRobinMessageSendStrategy.GetMessageBot; indexes count from 0 as in the code
RoundRobinGetMessageBot(s, q) ==
  IF q.err # "none"
  THEN [strategy |-> s, err |-> q.err, selectedIndex |-> 0, bot |-> NoBot]
  ELSE LET selectedIndex == s.currentIndex % Len(q.results)
       IN  [strategy |-> [s EXCEPT !.currentIndex = (s.currentIndex + 1) % Len(q.results)],
            err |-> "none", selectedIndex |-> selectedIndex,
            bot |-> buildMessageBotInfo(q.results[selectedIndex + 1])]

\* RandomMessageSendStrategy.GetMessageBot; n is the value rand.Intn draws
RandomGetMessageBot(s, q, n) ==
  IF q.err # "none"
  THEN [strategy |-> s, err |-> q.err, selectedIndex |-> 0, bot |-> NoBot]
  ELSE [strategy |-> s, err |-> "none", selectedIndex |-> n,
        bot |-> buildMessageBotInfo(q.results[n + 1])]

\* the values rand.Intn(len(results)) can draw
Intn(q) == IF q.err = "none" THEN 0..(Len(q.results) - 1) ELSE {0}

\* wxRobotService.GetMessageBotByStrategy
GetMessageBotByStrategy(s, q, n) ==
  IF s.kind = "round_robin" THEN RoundRobinGetMessageBot(s, q)
  ELSE RandomGetMessageBot(s, q, n)

NoStrategyRequest == [name |-> "", found |-> [kind |-> "", currentIndex |-> 0], status |-> 0]

\* the strategy names a request can give; "other" stands for every unknown name
KnownNames == {"round_robin", "random"}
StrategyNames == KnownNames \cup {"other"}

\* a setMessageStrategy that keeps the instance in use when its name is given
setMessageStrategyKeepSame(names) ==
  /\ \E name \in names :
       /\ strategy' = IF name = strategy.kind THEN strategy
                      ELSE IF name = "round_robin" THEN NewRoundRobinMessageSendStrategy
                      ELSE IF name = "random" THEN NewRandomMessageSendStrategy
                      ELSE strategy
       /\ selLog' = IF name = "other" THEN selLog ELSE <<>>
       /\ stratReq' = [name |-> name, found |-> strategy,
                       status |-> IF name = "other" THEN 400 ELSE 200]
  /\ UNCHANGED <<robots, users, groups, nextUserId, nextGroupId, clock, saveReq,
                 loginJob, syncJob, initJob, extReq, lastSync, sendReq, dbCalls, apiCall, cron, sel, proc>>

\* setMessageStrategy: a new instance for a known name and 200, 400 otherwise
setMessageStrategyOf(names) ==
  /\ \E name \in names :
       /\ strategy' = IF name = "round_robin" THEN NewRoundRobinMessageSendStrategy
                      ELSE IF name = "random" THEN NewRandomMessageSendStrategy
                      ELSE strategy
       /\ selLog' = IF name = "other" THEN selLog ELSE <<>>
       /\ stratReq' = [name |-> name, found |-> strategy,
                       status |-> IF name = "other" THEN 400 ELSE 200]
  /\ UNCHANGED <<robots, users, groups, nextUserId, nextGroupId, clock, saveReq,
                 loginJob, syncJob, initJob, extReq, lastSync, sendReq, dbCalls, apiCall, cron, sel, proc>>

setMessageStrategy == setMessageStrategyOf(StrategyNames)

IdleSend == [pc |-> "idle", groupId |-> "", results |-> <<>>, err |-> "none",
             selectedIndex |-> 0, bot |-> NoBot, status |-> 0,
             op |-> "none", text |-> "none", image |-> "none", success |-> FALSE]

\* the HTTP status sendText answers with: 404 for any error of
\* GetMessageBotByStrategy, 500 when the send call fails, 200 otherwise
sendTextStatus(err, sendFails) ==
  IF err # "none" THEN 404
  ELSE IF sendFails THEN 500
  ELSE 200

\* sendText up to its response (sendImage and sendTextAndImage resolve the bot
\* and answer its errors in the same way)
sendTextLogged(targets, log) ==
  /\ sendReq.pc = "idle"
  /\ \E groupId \in targets, fault \in BOOLEAN, sendFails \in BOOLEAN :
       LET q == queryMessageBots(groups, users, robots, groupId, fault)
       IN  \E n \in Intn(q) :
             LET r == GetMessageBotByStrategy(strategy, q, n)
             IN  /\ strategy' = r.strategy
                 /\ sendReq' = [pc |-> "done", groupId |-> groupId,
                                results |-> q.results, err |-> r.err,
                                selectedIndex |-> r.selectedIndex, bot |-> r.bot,
                                status |-> sendTextStatus(r.err, sendFails),
                                op |-> "sendText",
                                text |-> IF r.err # "none" THEN "none"
                                         ELSE IF sendFails THEN "failed" ELSE "sent",
                                image |-> "none",
                                success |-> r.err = "none" /\ ~sendFails]
                 /\ selLog' = Append(log,
                      [groupId |-> groupId,
                       candidates |-> [i \in 1..Len(q.results) |-> q.results[i].id],
                       selected |-> r.bot.user.id])
  /\ UNCHANGED <<robots, users, groups, nextUserId, nextGroupId, clock, saveReq,
                 loginJob, syncJob, initJob, extReq, lastSync, dbCalls, apiCall, cron, sel, proc, stratReq>>

\* sendText with every call of the strategy instance in use kept in the log
sendText(targets) ==
  /\ Len(selLog) < MaxSel
  /\ sendTextLogged(targets, selLog)

\* sendText with only the latest call of the strategy instance kept in the log
sendTextLatest(targets) == sendTextLogged(targets, <<>>)

\* what became of one message of a request: not attempted, or the result of
\* the client's call
Outcome(attempted, result) ==
  IF ~attempted THEN "none" ELSE IF result.err THEN "failed" ELSE "sent"

\* WxAPIClient.SendTextAndImage: both sends are made when their content is
\* there, the failures are gathered into Success and Message, and the error
\* result is nil unless both contents are empty
SendTextAndImage(hasText, hasImage, textResult, imageResult) ==
  IF ~hasText /\ ~hasImage
  THEN [resp |-> [success |-> FALSE], err |-> TRUE,
        text |-> "none", image |-> "none"]
  ELSE [resp |-> [success |-> ~(hasText /\ textResult.err) /\ ~(hasImage /\ imageResult.err)],
        err |-> FALSE,
        text |-> Outcome(hasText, textResult), image |-> Outcome(hasImage, imageResult)]

\* the HTTP status sendTextAndImage answers with: 400 when both contents are
\* empty, 404 for any error of GetMessageBotByStrategy, 500 when
\* SendTextAndImage returns an error, 200 otherwise
sendTextAndImageStatus(hasText, hasImage, err, sendErr) ==
  IF ~hasText /\ ~hasImage THEN 400
  ELSE IF err # "none" THEN 404
  ELSE IF sendErr THEN 500
  ELSE 200

\* sendTextAndImage up to its response
sendTextAndImage(targets) ==
  /\ sendReq.pc = "idle"
  /\ Len(selLog) < MaxSel
  /\ \E hasText \in BOOLEAN, hasImage \in BOOLEAN :
       IF ~hasText /\ ~hasImage
       THEN /\ sendReq' = [IdleSend EXCEPT !.pc = "done", !.op = "sendTextAndImage",
                             !.status = sendTextAndImageStatus(FALSE, FALSE, "none", FALSE)]
            /\ UNCHANGED <<strategy, selLog>>
       ELSE \E groupId \in targets, fault \in BOOLEAN :
              LET q == queryMessageBots(groups, users, robots, groupId, fault)
              IN  \E n \in Intn(q) :
                    LET r == GetMessageBotByStrategy(strategy, q, n)
                    IN  /\ strategy' = r.strategy
                        /\ selLog' = Append(selLog,
                             [groupId |-> groupId,
                              candidates |-> [i \in 1..Len(q.results) |-> q.results[i].id],
                              selected |-> r.bot.user.id])
                        /\ IF r.err # "none"
                           THEN sendReq' = [IdleSend EXCEPT !.pc = "done",
                                  !.op = "sendTextAndImage", !.groupId = groupId,
                                  !.err = r.err,
                                  !.status = sendTextAndImageStatus(hasText, hasImage, r.err, FALSE)]
                           ELSE \E textResult \in {SendText(reply) : reply \in ApiReplies("SendText")},
                                   imageResult \in {SendImage(reply) : reply \in ApiReplies("SendImage")} :
                                  LET sent == SendTextAndImage(hasText, hasImage, textResult, imageResult)
                                  IN  sendReq' = [pc |-> "done", groupId |-> groupId,
                                        results |-> q.results, err |-> "none",
                                        selectedIndex |-> r.selectedIndex, bot |-> r.bot,
                                        status |-> sendTextAndImageStatus(hasText, hasImage, "none", sent.err),
                                        op |-> "sendTextAndImage",
                                        text |-> sent.text, image |-> sent.image,
                                        success |-> sent.resp.success]
  /\ UNCHANGED <<robots, users, groups, nextUserId, nextGroupId, clock, saveReq,
                 loginJob, syncJob, initJob, extReq, lastSync, dbCalls, apiCall, cron, sel, proc, stratReq>>

\* sendText, the response is written and the request ends
sendTextReturn ==
  /\ sendReq.pc = "done"
  /\ sendReq' = IdleSend
  /\ UNCHANGED <<robots, users, groups, nextUserId, nextGroupId, clock, saveReq,
                 loginJob, syncJob, initJob, extReq, lastSync, strategy, selLog, dbCalls, apiCall, cron, sel, proc, stratReq>>

(***************************************************************************)
(* Send handlers running concurrently (gin serves every request in its own *)
(* goroutine): RouterManager.messageSendStrategy and the cursor of a       *)
(* round-robin instance are read and written without a lock                *)
(***************************************************************************)
Slots == 1..MaxSends

IdleSlot == [pc |-> "idle", inst |-> 0, cands |-> <<>>, err |-> "none",
             read |-> 0, load |-> 0, selected |-> 0, status |-> 0]

\* RouterManager after NewRouterManager: one strategy instance, the random one
NewSel == [insts |-> <<NewRandomMessageSendStrategy>>, active |-> 1,
           req |-> [s \in Slots |-> IdleSlot], started |-> 0]

\* a call that uses the instance the field points to at the time of each step
ReceiverActive(sl, slot) == sl.active

\* the receiver of GetMessageBot: the value of rm.messageSendStrategy that
\* sendText passed to GetMessageBotByStrategy
Receiver(sl, slot) == sl.req[slot].inst

\* a round robin that returns the candidate after the cursor
RoundRobinSelectedNext(cursor, cands) == cands[((cursor + 1) % Len(cands)) + 1]

\* results[s.currentIndex % len(results)] for the cursor value read
RoundRobinSelected(cursor, cands) == cands[(cursor % Len(cands)) + 1]

\* sendText reads rm.messageSendStrategy and calls GetMessageBotByStrategy with it
sendTextCall(slot) ==
  /\ sel.req[slot].pc = "idle"
  /\ sel.started < MaxStarted
  /\ sel' = [sel EXCEPT !.req[slot] = [IdleSlot EXCEPT !.pc = "query", !.inst = sel.active],
                        !.started = @ + 1]
  /\ UNCHANGED <<robots, users, groups, nextUserId, nextGroupId, clock, saveReq,
                 loginJob, syncJob, initJob, extReq, lastSync, strategy, sendReq, selLog,
                 dbCalls, apiCall, cron, proc, stratReq>>

\* GetMessageBot runs queryMessageBots; an error ends the call, the random
\* strategy draws its index, the round robin goes on to its cursor
GetMessageBotQuery(slot, targets) ==
  /\ sel.req[slot].pc = "query"
  /\ \E groupId \in targets, fault \in BOOLEAN :
       LET q == queryMessageBots(groups, users, robots, groupId, fault)
           ids == [i \in 1..Len(q.results) |-> q.results[i].id]
           s == sel.insts[Receiver(sel, slot)]
       IN  \E n \in Intn(q) :
             sel' = [sel EXCEPT !.req[slot] =
                       IF q.err # "none"
                       THEN [@ EXCEPT !.pc = "done", !.err = q.err,
                                      !.status = sendTextStatus(q.err, FALSE)]
                       ELSE IF s.kind = "random"
                       THEN [@ EXCEPT !.pc = "done", !.cands = ids, !.selected = ids[n + 1],
                                      !.status = sendTextStatus("none", FALSE)]
                       ELSE [@ EXCEPT !.pc = "index", !.cands = ids]]
  /\ UNCHANGED <<robots, users, groups, nextUserId, nextGroupId, clock, saveReq,
                 loginJob, syncJob, initJob, extReq, lastSync, strategy, sendReq, selLog,
                 dbCalls, apiCall, cron, proc, stratReq>>

\* selectedIndex := s.currentIndex % len(results)
RoundRobinReadIndex(slot) ==
  /\ sel.req[slot].pc = "index"
  /\ LET cursor == sel.insts[Receiver(sel, slot)].currentIndex
     IN  sel' = [sel EXCEPT !.req[slot] =
                   [@ EXCEPT !.pc = "load", !.read = cursor,
                             !.selected = RoundRobinSelected(cursor, sel.req[slot].cands)]]
  /\ UNCHANGED <<robots, users, groups, nextUserId, nextGroupId, clock, saveReq,
                 loginJob, syncJob, initJob, extReq, lastSync, strategy, sendReq, selLog,
                 dbCalls, apiCall, cron, proc, stratReq>>

\* the right-hand side of s.currentIndex = (s.currentIndex + 1) % len(results)
\* reads the cursor again
RoundRobinLoadIndex(slot) ==
  /\ sel.req[slot].pc = "load"
  /\ sel' = [sel EXCEPT !.req[slot] =
               [@ EXCEPT !.pc = "store",
                         !.load = sel.insts[Receiver(sel, slot)].currentIndex]]
  /\ UNCHANGED <<robots, users, groups, nextUserId, nextGroupId, clock, saveReq,
                 loginJob, syncJob, initJob, extReq, lastSync, strategy, sendReq, selLog,
                 dbCalls, apiCall, cron, proc, stratReq>>

\* the assignment to s.currentIndex; the call returns the selected bot and
\* sendText goes on to its response
RoundRobinStoreIndex(slot) ==
  /\ sel.req[slot].pc = "store"
  /\ LET r == sel.req[slot]
         i == Receiver(sel, slot)
     IN  sel' = [sel EXCEPT !.insts[i].currentIndex = (r.load + 1) % Len(r.cands),
                            !.req[slot] = [@ EXCEPT !.pc = "done",
                                                    !.status = sendTextStatus("none", FALSE)]]
  /\ strategy' = sel'.insts[sel'.active]
  /\ UNCHANGED <<robots, users, groups, nextUserId, nextGroupId, clock, saveReq,
                 loginJob, syncJob, initJob, extReq, lastSync, sendReq, selLog,
                 dbCalls, apiCall, cron, proc, stratReq>>

\* sendText has written its response
sendTextAnswer(slot) ==
  /\ sel.req[slot].pc = "done"
  /\ sel' = [sel EXCEPT !.req[slot] = IdleSlot]
  /\ UNCHANGED <<robots, users, groups, nextUserId, nextGroupId, clock, saveReq,
                 loginJob, syncJob, initJob, extReq, lastSync, strategy, sendReq, selLog,
                 dbCalls, apiCall, cron, proc, stratReq>>

\* setMessageStrategy while send requests run: the field is pointed to a new
\* instance, the instances handed out before stay as they are
setMessageStrategySwap ==
  /\ Len(sel.insts) < MaxInsts
  /\ \E name \in {"round_robin", "random"} :
       sel' = [sel EXCEPT !.insts = Append(@, IF name = "round_robin"
                                              THEN NewRoundRobinMessageSendStrategy
                                              ELSE NewRandomMessageSendStrategy),
                          !.active = Len(sel.insts) + 1]
  /\ strategy' = sel'.insts[sel'.active]
  /\ UNCHANGED <<robots, users, groups, nextUserId, nextGroupId, clock, saveReq,
                 loginJob, syncJob, initJob, extReq, lastSync, sendReq, selLog,
                 dbCalls, apiCall, cron, proc, stratReq>>

(***************************************************************************)
(* Specifications                                                          *)
(***************************************************************************)
Init ==
  /\ robots = {}
  /\ users = {}
  /\ groups = {}
  /\ nextUserId = 1
  /\ nextGroupId = 1
  /\ clock = 1
  /\ saveReq = IdleSave
  /\ loginJob = IdleLogin
  /\ syncJob = IdleSync
  /\ initJob = IdleInit
  /\ extReq = IdleExt
  /\ lastSync = NoSync
  /\ strategy = NewRandomMessageSendStrategy
  /\ sendReq = IdleSend
  /\ selLog = <<>>
  /\ dbCalls = {}
  /\ apiCall = NoCall
  /\ cron = [j \in Jobs |-> NewCron]
  /\ sel = NewSel
  /\ proc = Serving
  /\ stratReq = NoStrategyRequest

\* the save-user requests of the specifications: a login, a re-login of the same
\* pair with a new token and nickname, another account, the same account on a
\* second robot
ReqA == SaveRequest(1, "wxA", "t1", "n1", 0, 0)
ReqA2 == SaveRequest(1, "wxA", "t2", "n2", 0, 1)
ReqB == SaveRequest(1, "wxB", "t3", "n1", 0, 1)
ReqC == SaveRequest(2, "wxA", "t4", "n2", 0, 0)
Requests == {ReqA, ReqA2, ReqB, ReqC}

SmallLists == {<<>>, <<[groupId |-> "g1", groupNickName |-> "a"]>>}

\* nothing is in flight
Quiet ==
  /\ loginJob.pc = "idle"
  /\ syncJob.pc = "idle"
  /\ initJob.pc = "idle"
  /\ extReq.pc = "idle"
  /\ saveReq.pc = "idle"
  /\ sendReq.pc = "idle"

\* the number of ticks and requests in flight
InFlight ==
  Cardinality({j \in {loginJob, syncJob, initJob} : j.pc # "idle"})
  + (IF extReq.pc # "idle" THEN 1 ELSE 0)
  + (IF saveReq.pc # "idle" THEN 1 ELSE 0)
  + (IF sendReq.pc # "idle" THEN 1 ELSE 0)

CanStart == InFlight < MaxInFlight

\* the replies of the security-risk probe: data says whether some result of the
\* probe has isPass == false
PassProbe == {Envelope(CodeOK, FALSE)}

\* the session handlers and the login-status tick, interleaved at statement level
Next ==
  \/ createRobot("addr1")
  \/ CanStart /\ saveUser({ReqA, ReqA2}, PassProbe)
  \/ saveUserReturn
  \/ deleteUser
  \/ updateMessageBotStatus
  \/ CanStart /\ extendAuthPick
  \/ extendAuthDelay
  \/ extendAuthSave
  \/ CanStart /\ LoginStart
  \/ LoginProcess
  \/ LoginReturn

Spec == Init /\ [][Next]_vars

\* the session handlers and the initialization tick, interleaved at statement level
NextInitRace ==
  \/ createRobot("addr1")
  \/ CanStart /\ saveUser({ReqA, ReqA2}, PassProbe)
  \/ saveUserReturn
  \/ deleteUser
  \/ updateMessageBotStatus
  \/ CanStart /\ extendAuthPick
  \/ extendAuthDelay
  \/ extendAuthSave
  \/ CanStart /\ InitStart
  \/ InitProcess({<<>>})
  \/ InitReturn

SpecInitRace == Init /\ [][NextInitRace]_vars

\* one tick or one handler at a time, each run to its end before the next starts
NextSeq ==
  \/ Quiet /\ createRobot("addr1")
  \/ Quiet /\ saveUser(Requests, PassProbe)
  \/ saveUserReturn
  \/ Quiet /\ deleteUser
  \/ Quiet /\ updateMessageBotStatus
  \/ Quiet /\ extendAuthPick
  \/ extendAuthDelay
  \/ extendAuthSave
  \/ Quiet /\ LoginStart
  \/ LoginProcess
  \/ LoginReturn
  \/ Quiet /\ SyncStart
  \/ SyncProcess({<<>>})
  \/ SyncReturn
  \/ Quiet /\ InitStart
  \/ InitProcess({<<>>})
  \/ InitReturn

SpecSeq == Init /\ [][NextSeq]_vars

\* one account, every external group list: the initialization and group-sync
\* ticks, one at a time
NextGroups ==
  \/ Quiet /\ createRobot("addr1")
  \/ Quiet /\ saveUser({ReqA}, PassProbe)
  \/ saveUserReturn
  \/ Quiet /\ SyncStart
  \/ SyncProcess(GroupLists)
  \/ SyncReturn
  \/ Quiet /\ InitStart
  \/ InitProcess(GroupLists)
  \/ InitReturn

SpecGroups == Init /\ [][NextGroups]_vars

\* the strategy instance in use has not answered a call yet
NoSelection == selLog = <<>>

\* two message-bot accounts in one group, the strategies and the send handler; the
\* tables change only while the strategy instance in use has answered nothing
NextBot ==
  \/ Quiet /\ NoSelection /\ createRobot("addr1")
  \/ Quiet /\ NoSelection /\ saveUser({ReqA2, ReqB}, PassProbe \cup {Envelope(CodeOK, TRUE)})
  \/ saveUserReturn
  \/ Quiet /\ NoSelection /\ updateMessageBotStatus
  \/ Quiet /\ NoSelection /\ LoginStart
  \/ LoginProcess
  \/ LoginReturn
  \/ Quiet /\ NoSelection /\ InitStart
  \/ InitProcess(SmallLists)
  \/ InitReturn
  \/ Quiet /\ setMessageStrategyOf(KnownNames)
  \/ Quiet /\ sendText({"g1"})
  \/ sendTextReturn

SpecBot == Init /\ [][NextBot]_vars

\* the send handler over a candidate list that changes between the calls of one
\* strategy instance: accounts are switched to and from message bot at any time
NextResize ==
  \/ Quiet /\ NoSelection /\ createRobot("addr1")
  \/ Quiet /\ NoSelection /\ saveUser({ReqA2, ReqB}, PassProbe)
  \/ saveUserReturn
  \/ Quiet /\ updateMessageBotStatus
  \/ Quiet /\ NoSelection /\ InitStart
  \/ InitProcess(SmallLists)
  \/ InitReturn
  \/ Quiet /\ setMessageStrategyOf(KnownNames)
  \/ Quiet /\ sendText({"g1"})
  \/ sendTextReturn

SpecResize == Init /\ [][NextResize]_vars

\* one message-bot account in one group and the handler that sends a text and
\* an image
NextSendBoth ==
  \/ Quiet /\ NoSelection /\ createRobot("addr1")
  \/ Quiet /\ NoSelection /\ saveUser({ReqB}, PassProbe)
  \/ saveUserReturn
  \/ Quiet /\ NoSelection /\ InitStart
  \/ InitProcess(SmallLists)
  \/ InitReturn
  \/ Quiet /\ sendText({"g1"})
  \/ Quiet /\ sendTextAndImage({"g1"})
  \/ sendTextReturn

SpecSendBoth == Init /\ [][NextSendBoth]_vars

CallItems == {[groupId |-> g, groupNickName |-> n] : g \in {"g1", "g2"}, n \in {"a", "b"}}

CallLists == {<<>>, <<[groupId |-> "g1", groupNickName |-> "a"]>>,
              <<[groupId |-> "g1", groupNickName |-> "a"],
                [groupId |-> "g2", groupNickName |-> "a"]>>}

\* no gateway call is in flight
NoCalls == dbCalls = {}

\* two accounts, and the group gateway called as the ticks call it, one call
\* after the other
NextGroupCalls ==
  \/ Quiet /\ NoCalls /\ createRobot("addr1")
  \/ Quiet /\ NoCalls /\ saveUser({ReqA, ReqB}, PassProbe)
  \/ saveUserReturn
  \/ Quiet /\ NoCalls /\ InitStart
  \/ InitProcess({<<>>})
  \/ InitReturn
  \/ Quiet /\ NoCalls /\ SaveOrUpdateGroupLookupStep(CallItems)
  \/ SaveOrUpdateGroupWriteStep
  \/ SaveOrUpdateGroupReturnStep
  \/ Quiet /\ NoCalls /\ DeleteGroupsCallStep(CallLists)
  \/ DeleteGroupsReturnStep

SpecGroupCalls == Init /\ [][NextGroupCalls]_vars

\* a request that already names the account as a security risk
ReqRisk == SaveRequest(1, "wxB", "t5", "n1", 1, 1)

\* the replies of the security-risk probe of every kind: no reply, code 200, 300
\* and another code, each with and without a result that has isPass == false
AliasProbes == {Transport} \cup
               {Envelope(code, risk) : code \in ApiCodes, risk \in BOOLEAN}

\* two accounts saved with every outcome of the security-risk probe, and the
\* three writers of one flag each, one at a time
NextFlags ==
  \/ Quiet /\ createRobot("addr1")
  \/ Quiet /\ saveUser({ReqA2, ReqB, ReqRisk}, AliasProbes)
  \/ saveUserReturn
  \/ Quiet /\ updateMessageBotStatus
  \/ Quiet /\ LoginStart
  \/ LoginProcess
  \/ LoginReturn
  \/ Quiet /\ InitStart
  \/ InitProcess({<<>>})
  \/ InitReturn

SpecFlags == Init /\ [][NextFlags]_vars

\* one account that is deleted and saved again while the login-status and the
\* initialization tick run, interleaved at statement level
NextDeleteRace ==
  \/ createRobot("addr1")
  \/ CanStart /\ saveUser({ReqA}, PassProbe)
  \/ saveUserReturn
  \/ deleteUser
  \/ CanStart /\ LoginStart
  \/ LoginProcess
  \/ LoginReturn
  \/ CanStart /\ InitStart
  \/ InitProcess(SmallLists)
  \/ InitReturn

SpecDeleteRace == Init /\ [][NextDeleteRace]_vars

\* the group lists of two accounts that share g1, one of them also in g2
RotateLists == {<<[groupId |-> "g1", groupNickName |-> "a"]>>,
                <<[groupId |-> "g1", groupNickName |-> "a"],
                  [groupId |-> "g2", groupNickName |-> "a"]>>}

\* requests for two target groups served by one strategy instance for as long as
\* the process runs: the tables and the strategy are set up before the first
\* request (one robot, account wxA saved before account wxB), every request
\* that arrives is answered, and requests for g1 keep being served
NextRotate ==
  \/ Quiet /\ robots = {} /\ createRobot("addr1")
  \/ Quiet /\ NoSelection /\ saveUser(IF users = {} THEN {ReqA2} ELSE {ReqB}, PassProbe)
  \/ saveUserReturn
  \/ Quiet /\ NoSelection /\ InitStart
  \/ InitProcess(RotateLists)
  \/ InitReturn
  \/ Quiet /\ NoSelection /\ setMessageStrategyOf(KnownNames)
  \/ Quiet /\ sendTextLatest({"g1", "g2"})
  \/ sendTextReturn

SpecRotate ==
  /\ Init
  /\ [][NextRotate]_vars
  /\ WF_vars(sendTextReturn)
  /\ WF_vars(Quiet /\ sendTextLatest({"g1"}))

\* one account saved and saved again while initialization ticks keep coming:
\* the cron triggers the tick again and again and a tick or a request that has
\* started runs to its end
NextInitFair ==
  \/ Quiet /\ robots = {} /\ createRobot("addr1")
  \/ Quiet /\ saveUser({ReqA, ReqA2}, PassProbe)
  \/ saveUserReturn
  \/ Quiet /\ InitStart
  \/ InitProcess(SmallLists)
  \/ InitReturn

SpecInitFair ==
  /\ Init
  /\ [][NextInitFair]_vars
  /\ WF_vars(saveUserReturn)
  /\ WF_vars(Quiet /\ InitStart)
  /\ WF_vars(InitProcess(SmallLists))
  /\ WF_vars(InitReturn)

\* two message-bot accounts in one group, the send handler, and set-strategy
\* requests with every name, also between two selections of the instance in use
NextStrategy ==
  \/ Quiet /\ robots = {} /\ createRobot("addr1")
  \/ Quiet /\ NoSelection /\ saveUser(IF users = {} THEN {ReqA2} ELSE {ReqB}, PassProbe)
  \/ saveUserReturn
  \/ Quiet /\ NoSelection /\ InitStart
  \/ InitProcess(SmallLists)
  \/ InitReturn
  \/ Quiet /\ setMessageStrategy
  \/ Quiet /\ sendText({"g1"})
  \/ sendTextReturn

SpecStrategy == Init /\ [][NextStrategy]_vars

\* no send request has run concurrently yet
NoSends == sel = NewSel

\* two message-bot accounts in one group, then send requests and strategy
\* switches in any interleaving
NextSendRace ==
  \/ Quiet /\ NoSends /\ createRobot("addr1")
  \/ Quiet /\ NoSends /\ saveUser({ReqA2, ReqB}, PassProbe)
  \/ saveUserReturn
  \/ Quiet /\ NoSends /\ InitStart
  \/ InitProcess(SmallLists)
  \/ InitReturn
  \/ Quiet /\ setMessageStrategySwap
  \/ \E slot \in Slots : Quiet /\ sendTextCall(slot)
  \/ \E slot \in Slots : GetMessageBotQuery(slot, {"g1"})
  \/ \E slot \in Slots : RoundRobinReadIndex(slot)
  \/ \E slot \in Slots : RoundRobinLoadIndex(slot)
  \/ \E slot \in Slots : RoundRobinStoreIndex(slot)
  \/ \E slot \in Slots : sendTextAnswer(slot)

SpecSendRace == Init /\ [][NextSendRace]_vars

\* save-user requests whose SaveUser calls interleave between lookup and write,
\* with the handlers that write or remove session rows
NextSaveRace ==
  \/ createRobot("addr1")
  \/ updateRobot("addr2")
  \/ saveUserLookup({ReqA, ReqA2, ReqC}, PassProbe)
  \/ saveUserWrite
  \/ deleteUser
  \/ updateMessageBotStatus

SpecSaveRace == Init /\ [][NextSaveRace]_vars

\* the external lists of the overlapping ticks: none, one group, the group renamed
RaceItems == {[groupId |-> "g1", groupNickName |-> "a"],
              [groupId |-> "g1", groupNickName |-> "b"]}

RaceLists == {<<>>, <<[groupId |-> "g1", groupNickName |-> "a"]>>}

\* one account, and the persistence calls of overlapping initialization and
\* group-sync ticks for its wxId interleaved at statement level
NextGroupRace ==
  \/ Quiet /\ createRobot("addr1")
  \/ Quiet /\ saveUser({ReqA}, PassProbe)
  \/ saveUserReturn
  \/ Quiet /\ InitStart
  \/ InitProcess({<<>>})
  \/ InitReturn
  \/ SaveOrUpdateGroupLookupStep(RaceItems)
  \/ SaveOrUpdateGroupWriteStep
  \/ SaveOrUpdateGroupReturnStep
  \/ DeleteGroupsStep(RaceLists)

SpecGroupRace == Init /\ [][NextGroupRace]_vars

\* every writer of the tables, one at a time: the session handlers and the three
\* ticks, with an external list of no group or one group
NextOwners ==
  \/ Quiet /\ createRobot("addr1")
  \/ Quiet /\ saveUser({ReqA, ReqB}, PassProbe)
  \/ saveUserReturn
  \/ Quiet /\ deleteUser
  \/ Quiet /\ updateMessageBotStatus
  \/ Quiet /\ LoginStart
  \/ LoginProcess
  \/ LoginReturn
  \/ Quiet /\ SyncStart
  \/ SyncProcess(SmallLists)
  \/ SyncReturn
  \/ Quiet /\ InitStart
  \/ InitProcess(SmallLists)
  \/ InitReturn

SpecOwners == Init /\ [][NextOwners]_vars

\* the client alone: every operation on every reply
NextClient ==
  \/ clientCall

SpecClient == Init /\ [][NextClient]_vars

\* the three schedulers from Start to the end of gracefulShutdown
NextCron ==
  \/ \E j \in Jobs : schedulerStart(j)
  \/ \E j \in Jobs : tickFire(j)
  \/ \E j \in Jobs : tickEnd(j)
  \/ \E j \in Jobs : schedulerStop(j)
  \/ \E j \in Jobs : schedulerStopReturn(j)

SpecCron == Init /\ [][NextCron]_vars

\* the process from the start of the schedulers to the end of gracefulShutdown
NextShutdown ==
  \/ \E j \in Jobs : schedulerStart(j)
  \/ \E j \in Jobs : tickFire(j)
  \/ \E j \in Jobs : tickEnd(j)
  \/ \E j \in Jobs : schedulerStop(j)
  \/ \E j \in Jobs : schedulerStopReturn(j)
  \/ serverShutdown
  \/ serverShutdownReturn
  \/ dbClose

SpecShutdown == Init /\ [][NextShutdown]_vars

(***************************************************************************)
(* Properties                                                              *)
(***************************************************************************)
\* the groupIds of an external list
ListedIds(list) == {list[i].groupId : i \in 1..Len(list)}

\* the stored row g is listed and every listing of it carries its nickname
ListedUnchanged(g, list) ==
  /\ g.groupId \in ListedIds(list)
  /\ \A i \in 1..Len(list) :
       list[i].groupId = g.groupId => list[i].groupNickName = g.groupNickName

\* C1: after a group-sync tick has processed a session whose GroupList call
\* and persistence calls all succeeded, the persisted groupIds of the
\* session's wxId are exactly the listed groupIds, one row each; a row listed
\* and stored keeps its id, and is left unwritten when its nickname is
\* unchanged; a group only listed is a new row; a row only stored is gone.
C1_SyncReconciles ==
  lastSync.synced =>
    LET now == GetGroupsByWxID(groups, lastSync.wxId)
        ext == ListedIds(lastSync.list)
        old == lastSync.before
    IN  /\ {g.groupId : g \in now} = ext
        /\ Cardinality(now) = Cardinality(ext)
        /\ \A g \in old : g.groupId \in ext =>
             \E h \in now : h.id = g.id /\ h.groupId = g.groupId
        /\ \A g \in old : ListedUnchanged(g, lastSync.list) =>
             g \in now /\ GroupKey(g) \notin lastSync.written
        /\ \A h \in now : h.groupId \notin {g.groupId : g \in old} =>
             /\ \A g \in old : g.id < h.id
             /\ GroupKey(h) \in lastSync.written
        /\ \A g \in old : g.groupId \notin ext =>
             \A h \in groups : h.id # g.id

\* C1 witness: one sync kept an unchanged row, created a row and deleted a row
C1_Witness ==
  /\ lastSync.synced
  /\ \E g \in lastSync.before : ListedUnchanged(g, lastSync.list)
  /\ \E g \in lastSync.before : g.groupId \notin ListedIds(lastSync.list)
  /\ \E h \in GetGroupsByWxID(groups, lastSync.wxId) :
       h.groupId \notin {g.groupId : g \in lastSync.before}

\* the session rows of the pair (robotId, wxId)
RowsOfPair(us, robotId, wxId) == {r \in us : r.robotId = robotId /\ r.wxId = wxId}

\* C2: when SaveUser has stored a row for a pair that an earlier SaveUser call
\* created, the pair has exactly one row, which holds the nickName of this call
\* and the id and createTime the first call gave it.
C2_SecondSaveUpdatesInPlace ==
  (saveReq.pc = "done" /\ saveReq.called /\ ~saveReq.err /\ saveReq.existing # None) =>
    LET rows == RowsOfPair(users, saveReq.user.robotId, saveReq.user.wxId)
    IN  /\ Cardinality(rows) = 1
        /\ \A r \in rows :
             /\ r.nickName = saveReq.user.nickName
             /\ r.id = saveReq.existing.id
             /\ r.createTime = saveReq.existing.createTime
             /\ r.createTime >= 1
             /\ r.createTime < clock - 1

\* C2 witness: a second save of the pair with another nickName has returned
C2_Witness ==
  /\ saveReq.pc = "done" /\ saveReq.called /\ ~saveReq.err
  /\ saveReq.existing # None
  /\ saveReq.existing.nickName # saveReq.user.nickName

\* the indexes of the sessions a tick has handled
Handled(job) == 1..Len(job.log)

FixedCandidates(c) ==
  /\ selLog # <<>>
  /\ \A i \in 1..Len(selLog) :
       selLog[i].groupId = selLog[1].groupId /\ selLog[i].candidates = c

\* C4: while one round-robin instance has answered calls for one target group
\* that all saw the same N candidates, call i returned candidate (i - 1) mod N:
\* the first N calls return each candidate once and call N + 1 returns the
\* candidate at index 0 again.
C4_RoundRobinCycle ==
  \A c \in {selLog[i].candidates : i \in 1..Len(selLog)} :
    (strategy.kind = "round_robin" /\ FixedCandidates(c) /\ Len(c) > 0) =>
      /\ \A i \in 1..Len(selLog) : selLog[i].selected = c[((i - 1) % Len(c)) + 1]
      /\ Len(selLog) >= Len(c) =>
           {selLog[i].selected : i \in 1..Len(c)} = {c[j] : j \in 1..Len(c)}
      /\ Len(selLog) > Len(c) => selLog[Len(c) + 1].selected = c[1]

\* C4 witness: a round-robin instance has answered N + 1 calls over two candidates
C4_Witness ==
  /\ strategy.kind = "round_robin"
  /\ Len(selLog) = 3
  /\ \E c \in {selLog[i].candidates : i \in 1..Len(selLog)} :
       FixedCandidates(c) /\ Len(c) = 2

\* the number of sessions of a tick with the given outcome
Outcomes(job, o) == Cardinality({k \in Handled(job) : job.log[k].outcome = o})

\* the success count of a tick's tally; a tick that keeps no tally counts nothing
TalliedSuccess(job) ==
  IF "successCount" \in DOMAIN job THEN job.successCount ELSE 0

\* a tick that went through its loop has ended
Ended(job) == job.pc = "done" /\ job.ret = "nil" /\ Len(job.users) > 0

\* the outcomes of a session whose processing returned no error and asked for
\* no re-login
Succeeded == {"success", "pending", "initialized"}

SaveUserStepFor(u) ==
  /\ saveReq.pc = "idle" /\ saveReq'.pc = "done"
  /\ saveReq'.called /\ ~saveReq'.err
  /\ saveReq'.user.robotId = u.robotId
  /\ saveReq'.user.wxId = u.wxId

\* the step is UpdateUserExtension's Save of the row with the id of u
ExtensionSaveStepFor(u) ==
  /\ extReq.pc = "save" /\ extReq'.pc = "idle"
  /\ extReq.user.id = u.id

\* C9: a session row with status 3 gets status 1 back only by a saveUser request
\* for its (robotId, wxId), whatever the interleaving of login-status ticks and
\* the extend-auth handler.
C9_ReloginOnlyBySaveUser ==
  [][\A u \in users : u.status = StatusNeedRelogin =>
       \A v \in users' : (v.id = u.id /\ v.status = StatusNormal) => SaveUserStepFor(u)]_vars

\* C10 as stated: a row with isInitialized 1 keeps isInitialized 1 in every step
\* that leaves the row in the table.
C10_InitializedStays ==
  [][\A u \in users : u.isInitialized = 1 =>
       \A v \in users' : v.id = u.id => v.isInitialized = 1]_vars

\* C10 as amended: a row with isInitialized 1 keeps isInitialized 1 in every step
\* that leaves the row in the table, except a SaveUser call for its
\* (robotId, wxId), which writes the zero value of the row the handler built, and
\* UpdateUserExtension's Save, which writes the value it read.
C10_InitializedStaysUnlessSaved ==
  [][\A u \in users : u.isInitialized = 1 =>
       \A v \in users' : v.id = u.id =>
         \/ v.isInitialized = 1
         \/ SaveUserStepFor(u)
         \/ ExtensionSaveStepFor(u)]_vars

\* C10 witness: an initialized row has gone through a flag update and an
\* extension and is still initialized
C10_Witness ==
  \E u \in users :
    /\ u.isInitialized = 1
    /\ u.isMessageBot = 1
    /\ u.extensionTime = "extended"

\* C6: at the send handler a storage failure of the candidate query is answered
\* differently from "no eligible bot".
C6_HandlerTellsStorageFromNoBot ==
  (sendReq.pc = "done" /\ sendReq.err = "storage") =>
    sendReq.status # sendTextStatus("no_bot", FALSE)

C8_SelectedIsEligible ==
  (sendReq.pc = "done" /\ sendReq.err = "none") =>
    \E u \in users :
      /\ u.id = sendReq.bot.user.id
      /\ u.wxId = sendReq.bot.user.wxId
      /\ u.token = sendReq.bot.user.token
      /\ u.status = StatusNormal
      /\ u.isMessageBot = 1
      /\ u.hasSecurityRisk = 0
      /\ \E g \in groups : g.wxId = u.wxId /\ g.groupId = sendReq.groupId
      /\ sendReq.bot.robot.id = u.robotId
      /\ \E r \in robots : r.id = u.robotId /\ r.address = sendReq.bot.robot.address

\* C8 witness: a bot was returned while another session of the same group was
\* not eligible
C8_Witness ==
  /\ sendReq.pc = "done" /\ sendReq.err = "none"
  /\ \E u \in users :
       /\ u.id # sendReq.bot.user.id
       /\ \E g \in groups : g.wxId = u.wxId /\ g.groupId = sendReq.groupId
       /\ u.status # StatusNormal \/ u.isMessageBot # 1 \/ u.hasSecurityRisk # 0

\* the session rows are pairwise distinct in (robotId, wxId)
OneRowPerPair(us) ==
  \A r1, r2 \in us : (r1.robotId = r2.robotId /\ r1.wxId = r2.wxId) => r1 = r2

\* C11: in every reachable state there is at most one session row per
\* (robotId, wxId), also when two SaveUser calls for the same pair interleave
\* between their lookup and their write
C11_OneSessionPerPair ==
  OneRowPerPair(users)

\* the group rows are pairwise distinct in (wxId, groupId)
OneRowPerGroupKey(gs) ==
  \A g1, g2 \in gs : GroupKey(g1) = GroupKey(g2) => g1 = g2

\* C12: in every reachable state there is at most one group row per
\* (wxId, groupId), also when SaveOrUpdateGroup calls of overlapping ticks for
\* the same pair interleave between their lookup and their write
C12_OneGroupRowPerKey ==
  OneRowPerGroupKey(groups)

\* two overlapping calls for one pair both found no row; one created the row, the
\* other's Create was refused
C12_Witness ==
  \E c1, c2 \in dbCalls :
    /\ c1.op = "SaveOrUpdateGroup" /\ c2.op = "SaveOrUpdateGroup"
    /\ c1.slot # c2.slot
    /\ GroupKey(c1.row) = GroupKey(c2.row)
    /\ c1.found = None /\ c2.found = None
    /\ c1.done /\ ~c1.err
    /\ c2.done /\ c2.err
    /\ Cardinality({g \in groups : GroupKey(g) = GroupKey(c1.row)}) = 1

\* some group row of gs has no row of the same id in hs
RowRemoved(gs, hs) ==
  \E g \in gs : \A h \in hs : h.id # g.id

\* C13: a step that removes a group row is a step of the group-sync tick handling
\* a session; the initialization tick, the login-status tick, saveUser,
\* deleteUser and the flag updates remove none
C13_OnlySyncRemovesGroups ==
  [][RowRemoved(groups, groups') => (syncJob.pc = "run" /\ syncJob' # syncJob)]_vars

\* the session that owned group rows has been deleted and its group rows are
\* still there
C13_Witness ==
  /\ users = {}
  /\ nextUserId > 1
  /\ groups # {}
  /\ Quiet

C15_TickErrorIffIntakeFails ==
  \A job \in {loginJob, syncJob, initJob} :
    job.pc = "done" => /\ job.ret \in {"err", "nil"}
                       /\ job.ret = "err" <=> job.intakeErr

\* a tick ended returning nil although the handling of one of its sessions failed
C15_Witness ==
  \E job \in {loginJob, syncJob, initJob} :
    /\ Ended(job)
    /\ job.ret = "nil"
    /\ \E k \in 1..Len(job.log) : job.log[k].outcome = "error"

\* C16: while an initialization tick is in flight, a session it has set
\* isInitialized for had the init status report initialized, the group list
\* fetched and every group of the list upserted with no error; a session whose
\* group-list fetch or upsert failed still has isInitialized false
C16_InitializedOnlyAfterGroupsSaved ==
  initJob.pc # "idle" =>
    \A k \in 1..Len(initJob.log) :
      LET e == initJob.log[k]
      IN  \A r \in users : r.id = e.id =>
            /\ r.isInitialized = 1 =>
                  (e.ready /\ e.fetched /\ ~e.saveErr /\ e.upserted)
            /\ (e.ready /\ (~e.fetched \/ e.saveErr)) => r.isInitialized = 0

\* a tick set isInitialized for a session after upserting a list of two groups
C16_Witness ==
  /\ initJob.pc # "idle"
  /\ \E k \in 1..Len(initJob.log) :
       LET e == initJob.log[k]
       IN  /\ e.outcome = "initialized"
           /\ Cardinality(GetGroupsByWxID(groups, e.wxId)) >= 2
           /\ \E r \in users : r.id = e.id /\ r.isInitialized = 1

\* the sessions a tick took in
IntakeOf(job) == {job.users[k] : k \in 1..Len(job.users)}

\* the tick's intake query has answered and no session has been handled yet
JustTaken(job) == job.pc # "idle" /\ ~job.intakeErr /\ job.log = <<>>

\* C17 as stated: the initialization tick takes in exactly the sessions with
\* isInitialized false and the group-sync tick exactly those with isInitialized
\* true, whatever their status
C17_IntakeWhateverStatus ==
  /\ JustTaken(initJob) => IntakeOf(initJob) = {u \in users : u.isInitialized = 0}
  /\ JustTaken(syncJob) => IntakeOf(syncJob) = {u \in users : u.isInitialized = 1}

\* C17 amended: the initialization tick takes in exactly the sessions with
\* isInitialized false and status Normal, the group-sync tick exactly those with
\* isInitialized true and status Normal
C17_IntakeNormalOnly ==
  /\ JustTaken(initJob) =>
       IntakeOf(initJob) = {u \in users : u.isInitialized = 0 /\ u.status = StatusNormal}
  /\ JustTaken(syncJob) =>
       IntakeOf(syncJob) = {u \in users : u.isInitialized = 1 /\ u.status = StatusNormal}

\* an initialization tick took in a Normal session and left out an uninitialized
\* session that needs a re-login
C17_Witness ==
  /\ JustTaken(initJob)
  /\ IntakeOf(initJob) # {}
  /\ \E u \in users : /\ u.isInitialized = 0
                       /\ u.status = StatusNeedRelogin
                       /\ u \notin IntakeOf(initJob)

\* C18: in a group-sync tick a session whose GroupList call came back with a
\* non-200 application code is skipped and not counted as an error
C18_Non200NotAnError ==
  \A k \in 1..Len(syncJob.log) :
    syncJob.log[k].code \notin {0, CodeOK} => syncJob.log[k].outcome # "error"

\* the k-th session of the login-status tick in flight has the row the tick took in
RowAsTaken(k) == loginJob.users[k] \in users

\* C19 as stated: in a login-status tick a session whose CheckCanSetAlias call
\* came back with any application code other than 300 is counted as success
\* and its row is not written
C19_AnyOtherCodeIsSuccess ==
  \A k \in 1..Len(loginJob.log) :
    loginJob.log[k].code \notin {0, CodeRelogin} =>
      (loginJob.log[k].outcome = "success" /\ RowAsTaken(k))

\* C19 amended: code 200 is counted as success, a code other than 200 and 300 is
\* counted as an error, and in both cases the session's row is not written
C19_OkIsSuccessOtherIsError ==
  \A k \in 1..Len(loginJob.log) :
    LET e == loginJob.log[k]
    IN  /\ e.code = CodeOK => (e.outcome = "success" /\ RowAsTaken(k))
        /\ e.code \notin {0, CodeOK, CodeRelogin} =>
              (e.outcome = "error" /\ RowAsTaken(k))

\* one tick handled a session that answered 200 and a session that answered
\* another code than 200 and 300
C19_Witness ==
  /\ \E k \in 1..Len(loginJob.log) :
       loginJob.log[k].code = CodeOK /\ loginJob.log[k].outcome = "success"
  /\ \E k \in 1..Len(loginJob.log) :
       loginJob.log[k].code = CodeOther /\ loginJob.log[k].outcome = "error"

\* the operations that accept Code 300
AcceptRelogin == {"CheckCanSetAlias", "CheckLoginStatus"}

\* the last call got an envelope back
Replied == apiCall.op # "none" /\ apiCall.reply.kind = "envelope"

\* the envelope rules for the last call: 200 gives no error, 300 gives no error
\* only for the operations that accept it, any other code gives an error that
\* carries the envelope's Text
EnvelopeRules ==
  /\ apiCall.reply.code = CodeOK => ~apiCall.result.err
  /\ apiCall.reply.code = CodeRelogin =>
       (~apiCall.result.err <=> apiCall.op \in AcceptRelogin)
  /\ apiCall.reply.code \notin {CodeOK, CodeRelogin} =>
       (apiCall.result.err /\ apiCall.result.text = apiCall.reply.text)
  /\ apiCall.result.err /\ apiCall.reply.code = CodeRelogin =>
       apiCall.result.text = apiCall.reply.text

\* the first entry of a send endpoint's Data reports a message that was sent
FirstResultSent ==
  LET data == apiCall.reply.data
  IN  /\ Len(data) > 0
      /\ data[1].resp # None
      /\ data[1].resp.ret = 0
      /\ apiCall.op = "SendText" =>
            /\ data[1].isSendSuccess
            /\ Len(data[1].resp.chatSendRetList) > 0
            /\ data[1].resp.chatSendRetList[1].ret = 0
      /\ apiCall.op = "SendImage" => data[1].errMsg = ""

SendCalled == apiCall.op \in {"SendText", "SendImage"}

\* the first entry of Data is there with a Resp whose ret is 0
FirstRetZero ==
  /\ apiCall.reply.kind = "envelope"
  /\ Len(apiCall.reply.data) > 0
  /\ apiCall.reply.data[1].resp # None
  /\ apiCall.reply.data[1].resp.ret = 0

C22_StopWaitsForTicks ==
  [][\A j \in Jobs :
       /\ cron'[j].stop = "returned" => cron'[j].ticks = 0
       /\ cron[j].stop # "none" => cron'[j].ticks <= cron[j].ticks]_vars

\* Stop() of a job has returned and a tick of the job was in flight when it was
\* called
C22_Witness ==
  \E j \in Jobs : cron[j].stop = "returned" /\ cron[j].atStop > 0

\* C23: for each job at most one tick is executing at any time
C23_AtMostOneTick ==
  \A j \in Jobs : cron[j].ticks <= 1

\* the calls of the log that returned a candidate
Completed(log) == SelectSeq(log, LAMBDA e : e.candidates # <<>>)

\* the cursor of a round-robin instance after the first k completed calls, as the
\* code stores it
RECURSIVE CursorAfter(_, _)
CursorAfter(done, k) ==
  IF k = 0 THEN 0
  ELSE (CursorAfter(done, k - 1) + 1) % Len(done[k].candidates)

\* C24 as stated: the cursor of a round-robin instance equals the number of
\* selections it has completed (so it never decreases), and its k-th selection
\* (k from 0) returned candidates[k mod len(candidates at call k)], whatever the
\* sizes of the candidate lists were
C24_CursorCountsSelections ==
  strategy.kind = "round_robin" =>
    LET done == Completed(selLog)
    IN  /\ strategy.currentIndex = Len(done)
        /\ \A k \in 1..Len(done) :
             done[k].selected =
               done[k].candidates[((k - 1) % Len(done[k].candidates)) + 1]

\* C24 amended: the cursor of a round-robin instance is reduced modulo the size of
\* the candidate list at every selection, so it stays below that size and falls
\* back to 0 when it wraps; every selection returns candidates[cursor mod len]
\* for the cursor it found, and stores (cursor + 1) mod len; while the size has
\* stayed the same N since the instance was created the k-th selection returns
\* candidates[k mod N]
C24_CursorWrapsAtListSize ==
  strategy.kind = "round_robin" =>
    LET done == Completed(selLog)
    IN  /\ strategy.currentIndex = CursorAfter(done, Len(done))
        /\ Len(done) > 0 => strategy.currentIndex < Len(done[Len(done)].candidates)
        /\ \A k \in 1..Len(done) :
             LET c == done[k].candidates
             IN  /\ done[k].selected = c[(CursorAfter(done, k - 1) % Len(c)) + 1]
                 /\ (\A j \in 1..k : Len(done[j].candidates) = Len(c)) =>
                      done[k].selected = c[((k - 1) % Len(c)) + 1]

\* C24 witness: a round-robin instance selected over one candidate and then over
\* two, and its second selection is not candidates[1 mod 2]
C24_Witness ==
  /\ strategy.kind = "round_robin"
  /\ LET done == Completed(selLog)
     IN  /\ Len(done) >= 2
         /\ Len(done[1].candidates) = 1
         /\ Len(done[2].candidates) = 2
         /\ done[2].selected # done[2].candidates[2]

\* the request of the slot has read the cursor for its selection
HasRead(r) == r.pc \in {"load", "store"} \/ (r.pc = "done" /\ r.err = "none")

\* two requests on one round-robin instance, over the same list of two or more
\* candidates, that found the same cursor value
SameCursorRead(s, t) ==
  /\ s # t
  /\ HasRead(sel.req[s]) /\ HasRead(sel.req[t])
  /\ sel.req[s].inst = sel.req[t].inst
  /\ sel.insts[sel.req[s].inst].kind = "round_robin"
  /\ sel.req[s].cands = sel.req[t].cands
  /\ Len(sel.req[s].cands) >= 2
  /\ sel.req[s].read = sel.req[t].read

\* C25: nothing keeps two concurrent selections on one round-robin instance from
\* reading the same cursor value, and two selections over the same list of
\* N >= 2 candidates that read the same cursor value c both return
\* candidates[c mod N], the same candidate
C25_SameCursorSameCandidate ==
  \A s \in Slots, t \in Slots :
    SameCursorRead(s, t) =>
      /\ sel.req[s].selected = sel.req[t].selected
      /\ sel.req[s].selected = sel.req[s].cands[(sel.req[s].read % Len(sel.req[s].cands)) + 1]

\* C25 witness: both requests have read the same cursor and neither has stored
\* it yet; they hold the same candidate
C25_Witness ==
  \E s \in Slots, t \in Slots :
    /\ SameCursorRead(s, t)
    /\ sel.req[s].pc = "store" /\ sel.req[t].pc = "store"
    /\ sel.req[s].selected = sel.req[t].selected

\* C26: a request in flight keeps the strategy instance it read when it started,
\* which is the one in use at that moment; a cursor changes only by the store of
\* a request that holds that instance, and a switch changes no instance that
\* exists, only which one later requests read
C26_SwitchLeavesInFlightSelection ==
  [][/\ \A s \in Slots :
          /\ (sel.req[s].pc # "idle" /\ sel'.req[s].pc # "idle") =>
               sel'.req[s].inst = sel.req[s].inst
          /\ (sel.req[s].pc = "idle" /\ sel'.req[s].pc # "idle") =>
               sel'.req[s].inst = sel.active
     /\ \A i \in 1..Len(sel.insts) :
          /\ sel'.insts[i].kind = sel.insts[i].kind
          /\ sel'.insts[i] # sel.insts[i] =>
               \E s \in Slots : /\ sel.req[s].pc = "store" /\ sel'.req[s].pc = "done"
                                /\ sel.req[s].inst = i]_vars

\* C26 witness: a round-robin selection has finished and advanced the cursor of
\* its instance after the strategy was switched while it was in flight
C26_Witness ==
  \E s \in Slots :
    /\ sel.req[s].pc = "done"
    /\ sel.req[s].err = "none"
    /\ sel.req[s].inst # sel.active
    /\ sel.insts[sel.req[s].inst].kind = "round_robin"
    /\ sel.insts[sel.req[s].inst].currentIndex # 0

\* C27: a send handler that met an error (no bot selected, or a send of the
\* request failed) answers with a failure status and never with 200; the
\* send-text-and-image handler answers with a failure when its text send or its
\* image send failed
C27_FailureWhenASendFails ==
  (sendReq.pc = "done" /\ sendReq.op \in {"sendText", "sendTextAndImage"}) =>
    ((sendReq.err # "none" \/ sendReq.text = "failed" \/ sendReq.image = "failed") =>
       sendReq.status >= 400)

\* the entry an initialization tick appends in the step
InitEntry == initJob'.log[Len(initJob'.log)]

\* the step is processUser for a session whose init status came back as not yet
\* initialized
PendingStep ==
  /\ initJob.pc = "run"
  /\ Len(initJob'.log) = Len(initJob.log) + 1
  /\ InitEntry.polled /\ ~InitEntry.ready

\* the step changes no session row and no group row
NothingWritten ==
  /\ users' = users
  /\ groups' = groups
  /\ nextGroupId' = nextGroupId

\* C28 as stated: an initialization tick that finds a session not yet
\* initialized writes nothing and does not count the session as an error,
\* whether or not the session has group rows
C28_PendingWritesNothingNoError ==
  [][PendingStep => (NothingWritten /\ InitEntry.outcome # "error")]_vars

\* C28 amended: an initialization tick that finds a session not yet initialized
\* writes nothing, whether or not the session has group rows; the session is
\* not counted as an error when the lookup of its group rows answers, and is
\* counted as one exactly when that lookup fails
C28_PendingWritesNothing ==
  [][PendingStep =>
       /\ NothingWritten
       /\ InitEntry.outcome \in {"pending", "error"}
       /\ InitEntry.outcome = "error" <=> InitEntry.cause = "db"]_vars

\* C28 witness: a tick left a session pending that already has group rows
C28_Witness ==
  /\ initJob.pc # "idle"
  /\ \E k \in 1..Len(initJob.log) :
       LET e == initJob.log[k]
       IN  /\ e.polled /\ ~e.ready /\ e.outcome = "pending"
           /\ GetGroupsByWxID(groups, e.wxId) # {}
           /\ \E r \in users : r.id = e.id /\ r.isInitialized = 0

KeepSet(groupIDs) == {groupIDs[i] : i \in 1..Len(groupIDs)}

\* C30: a DeleteGroupsByWxIDNotInList(wxId, keep) call that succeeds removes
\* exactly the rows of wxId whose groupId is not in keep, all of them when keep
\* is empty; every row of another wxId and every row of wxId with a groupId in
\* keep is left as it was; a call that fails removes nothing
C30_DeleteExactlyNotInList ==
  [][\A d \in dbCalls' \ dbCalls :
       d.op = "DeleteGroupsByWxIDNotInList" =>
         IF d.err THEN groups' = groups
         ELSE groups' = {g \in groups :
                           g.wxId # d.wxID \/ g.groupId \in KeepSet(d.groupIDs)}]_vars

\* C30 witness: a call with a list of one id has removed a row of its wxId and
\* left a row of its wxId and a row of another wxId
C30_Witness ==
  \E d \in dbCalls :
    /\ d.op = "DeleteGroupsByWxIDNotInList" /\ ~d.err
    /\ Len(d.groupIDs) = 1
    /\ nextGroupId = 4
    /\ Cardinality(groups) = 2
    /\ \E g \in groups : g.wxId = d.wxID /\ g.groupId \in KeepSet(d.groupIDs)
    /\ \E g \in groups : g.wxId # d.wxID

\* the rows of the step's table that are not in the table before, and their
\* rows before
Changed == {r \in users' : r \notin users}
Before_(r) == CHOOSE q \in users : q.id = r.id

\* the step writes at most the given column of the one row with the given id,
\* and neither adds nor removes a row
OnlyColumn(col, id) ==
  /\ {r.id : r \in users'} = {r.id : r \in users}
  /\ Cardinality(users') = Cardinality(users)
  /\ \A r \in Changed :
       /\ r.id = id
       /\ \A f \in DOMAIN r : f # col => r[f] = Before_(r)[f]

\* a step of the update-message-bot handler: no tick and no other handler that
\* writes session rows moves, and no row is added or removed
MessageBotStep ==
  /\ loginJob' = loginJob /\ initJob' = initJob /\ syncJob' = syncJob
  /\ saveReq' = saveReq /\ extReq' = extReq
  /\ users' # users
  /\ {r.id : r \in users'} = {r.id : r \in users}

ReloginStep ==
  /\ loginJob.pc = "run"
  /\ Len(loginJob'.log) = Len(loginJob.log) + 1
  /\ loginJob'.log[Len(loginJob'.log)].outcome = "relogin"
AsRead == loginJob.users[loginJob.i]

TickStep(job, job2) == job.pc = "run" /\ Len(job2.log) = Len(job.log) + 1

\* the tick ended after its intake answered: it returned nil
ReturnsNil(job) == (job.pc = "done" /\ ~job.intakeErr) => job.ret = "nil"

\* C33: when a login-status or an initialization tick handles a session that
\* DeleteUser removed after the tick's intake read it, the tick's status or
\* isInitialized update matches no row and is no error: no session row is
\* created, the table of sessions stays as it is, and the tick returns nil
C33_DeletedSessionNotRecreated ==
  [][/\ (TickStep(loginJob, loginJob') /\
         \A r \in users : r.id # loginJob.users[loginJob.i].id) =>
          users' = users /\ ReturnsNil(loginJob')
     /\ (TickStep(initJob, initJob') /\
         \A r \in users : r.id # initJob.users[initJob.i].id) =>
          users' = users /\ ReturnsNil(initJob')]_vars

\* C33 witness: a login-status tick got 300 for a session whose row was gone
\* when it wrote the status, the write matched no row, the tick has returned
\* nil, and no row has the session's id
C33_Witness ==
  /\ loginJob.pc = "done" /\ loginJob.ret = "nil"
  /\ \E k \in 1..Len(loginJob.log) :
       /\ loginJob.log[k].outcome = "relogin"
       /\ loginJob.log[k].affected = 0
       /\ \A r \in users : r.id # loginJob.log[k].id

\* the send handler has just selected for group g among at least two candidates
\* with the round-robin instance in use
Served(g) ==
  /\ sendReq.pc = "done"
  /\ sendReq.err = "none"
  /\ sendReq.groupId = g
  /\ strategy.kind = "round_robin"
  /\ Len(sendReq.results) >= 2

\* session c is one of the candidates of the selection just made
CandidateOf(c) == \E k \in 1..Len(sendReq.results) : sendReq.results[k].id = c

\* no selection is being answered for a group other than g
OnlySelectionsFor(g) == (sendReq.pc = "done" /\ sendReq.err = "none") => sendReq.groupId = g

\* C34 as stated: with one round-robin instance serving g1 and g2, a candidate
\* of g1 (which has at least 2 candidates) that requests for g1 keep finding is
\* selected for g1 again and again, whatever requests for g2 are served between
C34_NoCandidateStarved ==
  \A c \in 1..MaxSaves :
    []<>(Served("g1") /\ CandidateOf(c)) =>
      []<>(Served("g1") /\ sendReq.bot.user.id = c)

\* C34 amended: a candidate of g1 that requests for g1 keep finding is selected
\* for g1 again and again provided that, from some request on, the instance
\* makes no selection for another group
C34_NoCandidateStarvedWhenServedAlone ==
  \A c \in 1..MaxSaves :
    ([]<>(Served("g1") /\ CandidateOf(c)) /\ <>[]OnlySelectionsFor("g1")) =>
      []<>(Served("g1") /\ sendReq.bot.user.id = c)

\* C34 witness: the round-robin instance has selected the second of the two
\* candidates of g1 while g2 has a candidate of its own
C34_Witness ==
  /\ Served("g1")
  /\ sendReq.bot.user.id = sendReq.results[2].id
  /\ queryMessageBots(groups, users, robots, "g2", FALSE).err = "none"

\* the initialization tick in progress met no failing call and every session
\* it polled was reported initialized
InitHealthy ==
  /\ ~initJob.intakeErr
  /\ \A k \in 1..Len(initJob.log) : initJob.log[k].outcome = "initialized"

\* session id exists with status Normal
NormalRow(id) == \E r \in users : r.id = id /\ r.status = StatusNormal

\* session id has isInitialized == true
Initialized(id) == \E r \in users : r.id = id /\ r.isInitialized = 1

\* session id is in the group-sync intake and not in the initialization intake
InSyncIntakeOnly(id) ==
  /\ \E r \in GetInitializedUsers(users) : r.id = id
  /\ \A r \in GetUninitializedUsers(users) : r.id # id

\* C35 as stated: under weak fairness of the initialization ticks a session that
\* has status Normal, whose external init status stays initialized and whose
\* calls succeed, eventually has isInitialized == true, and from the moment it
\* has, it stays in the group-sync intake and out of the initialization intake
C35_InitializedForGood ==
  \A id \in UserIds :
    (<>[]InitHealthy /\ <>[]NormalRow(id)) =>
      /\ <>Initialized(id)
      /\ [](Initialized(id) => []InSyncIntakeOnly(id))

\* C35 amended: such a session has isInitialized == true again and again (a
\* SaveUser of the same account sets it back to false until the next tick), and
\* whenever it has and its status is Normal it is in the group-sync intake and
\* not in the initialization intake
C35_InitializedAgainAndAgain ==
  \A id \in UserIds :
    /\ (<>[]InitHealthy /\ <>[]NormalRow(id)) => []<>Initialized(id)
    /\ []((Initialized(id) /\ NormalRow(id)) => InSyncIntakeOnly(id))

\* C35 witness: an initialization tick has just set isInitialized of a session
\* that has status Normal, and the session is in the group-sync intake only
C35_Witness ==
  /\ initJob.pc = "done"
  /\ \E k \in 1..Len(initJob.log) :
       /\ initJob.log[k].outcome = "initialized"
       /\ initJob.log[k].affected = 1
       /\ NormalRow(initJob.log[k].id)
       /\ InSyncIntakeOnly(initJob.log[k].id)

\* the group-sync tick handles a session in the step
SyncStep == syncJob.pc = "run" /\ Len(syncJob'.log) = Len(syncJob.log) + 1

\* C36: when a SaveOrUpdateGroup of the upsert loop fails during a session's
\* group sync, the deletion pass is not run: every group row the wxId had before
\* the step still exists after it, the rows of groups that are not in the
\* external list are untouched, and the session is counted as an error
C36_FailedUpsertSkipsDeletion ==
  [][(SyncStep /\ lastSync'.saveErr) =>
       /\ \A g \in groups : g.wxId = lastSync'.wxId => \E h \in groups' : h.id = g.id
       /\ \A g \in groups :
            (g.wxId = lastSync'.wxId /\
             \A k \in 1..Len(lastSync'.list) : lastSync'.list[k].groupId # g.groupId)
              => g \in groups'
       /\ syncJob'.errorCount = syncJob.errorCount + 1
       /\ syncJob'.successCount = syncJob.successCount
       /\ syncJob'.log[Len(syncJob'.log)].outcome = "error"]_vars

\* C36 witness: a sync whose upsert loop wrote a row and then failed, for a wxId
\* that has a row of a group missing from the external list; the row is still
\* there and the tick counts one error
C36_Witness ==
  /\ lastSync.saveErr
  /\ lastSync.written # {}
  /\ syncJob.errorCount = 1
  /\ \E g \in lastSync.before :
       /\ \A k \in 1..Len(lastSync.list) : lastSync.list[k].groupId # g.groupId
       /\ g \in groups

\* C37: in gracefulShutdown the HTTP server is shut down only after the three
\* Stop() calls have returned, each with no tick of its job in flight; the
\* database is closed only after that and after server.Shutdown has returned;
\* and while the database is closed no tick of any job is running
C37_ShutdownOrder ==
  /\ proc.server # "serving" =>
       \A j \in Jobs : cron[j].stop = "returned" /\ ~cron[j].running
  /\ (\E j \in Jobs : cron[j].stop = "returned") =>
       \A j \in Jobs : cron[j].stop = "returned" => cron[j].ticks = 0
  /\ proc.db = "closed" =>
       /\ proc.server = "down"
       /\ \A j \in Jobs : cron[j].stop = "returned"
       /\ \A j \in Jobs : cron[j].ticks = 0

\* C37 witness: the database is closed after a shutdown in which the Stop() of
\* some job was called while ticks of it were in flight
C37_Witness ==
  /\ proc.db = "closed"
  /\ \E j \in Jobs : cron[j].atStop > 0

\* a set-strategy request naming `name` is answered in the step
SetStrategyStep(name) ==
  /\ stratReq'.name = name
  /\ stratReq'.found = strategy
  /\ UNCHANGED <<robots, users, groups, saveReq, initJob, sendReq>>

\* C38 as stated: a set-strategy request naming round_robin while a round-robin
\* instance is in use leaves its cursor as it is, and a request with an unknown
\* name is rejected and leaves the strategy in use and its cursor as they are
C38_SetStrategyKeepsCursor ==
  [][/\ (SetStrategyStep("round_robin") /\ strategy.kind = "round_robin") =>
          strategy' = strategy
     /\ SetStrategyStep("other") => (strategy' = strategy /\ stratReq'.status = 400)]_vars

\* C38 amended: a set-strategy request naming round_robin or random puts a new
\* instance with cursor 0 in use, whatever was in use, and answers 200; a
\* request with an unknown name is rejected and leaves the strategy in use and
\* its cursor as they are
C38_SetStrategyInstallsNewInstance ==
  [][/\ SetStrategyStep("round_robin") =>
          (strategy' = NewRoundRobinMessageSendStrategy /\ stratReq'.status = 200)
     /\ SetStrategyStep("random") =>
          (strategy' = NewRandomMessageSendStrategy /\ stratReq'.status = 200)
     /\ SetStrategyStep("other") => (strategy' = strategy /\ stratReq'.status = 400)]_vars

\* C38 witness: the last set-strategy request named round_robin, found a
\* round-robin instance whose cursor was 1, and left one whose cursor is 0
C38_Witness ==
  /\ stratReq.name = "round_robin"
  /\ stratReq.status = 200
  /\ stratReq.found = [kind |-> "round_robin", currentIndex |-> 1]
  /\ strategy = [kind |-> "round_robin", currentIndex |-> 0]
  /\ selLog = <<>>

\* saveUser has saved a session in the step
SavedStep == saveReq.pc = "idle" /\ saveReq'.pc = "done" /\ saveReq'.called /\ ~saveReq'.err

\* the rows the request of the step wrote: those of its (robotId, wxId)
SavedRows ==
  {r \in users' : r.robotId = saveReq'.user.robotId /\ r.wxId = saveReq'.user.wxId}

\* the probe of the step was made and CheckCanSetAlias returned it without error
ProbeReturned == saveReq'.probe # NoProbe /\ ~CheckCanSetAlias(saveReq'.probe).err

\* the probe of the step was made and CheckCanSetAlias returned an error
ProbeFailed == saveReq'.probe # NoProbe /\ CheckCanSetAlias(saveReq'.probe).err

\* the probe of the step was made and the reply has code 300
ProbeRelogin ==
  /\ saveReq'.probe # NoProbe
  /\ saveReq'.probe.kind = "envelope"
  /\ saveReq'.probe.code = CodeRelogin

\* C39 as stated: saveUser persists the session with status Normal and with
\* hasSecurityRisk 1 exactly when the request said 1 or the probe succeeded and
\* had a result with isPass false; a probe that fails or answers 300 gives
\* hasSecurityRisk 0
C39_RiskFromRequestOrProbe ==
  [][SavedStep =>
       /\ SavedRows # {}
       /\ \A r \in SavedRows :
            /\ r.status = StatusNormal
            /\ r.hasSecurityRisk = 1 <=>
                 (saveReq'.said = 1 \/ (ProbeReturned /\ saveReq'.probe.data))
            /\ (ProbeFailed \/ ProbeRelogin) => r.hasSecurityRisk = 0]_vars

\* C39 amended: as stated, except that a reply with code 300 is a probe that
\* succeeded: only a probe that fails (transport error or a code other than 200
\* and 300) gives hasSecurityRisk 0 whatever it carries
C39_RiskFromRequestOrReturnedProbe ==
  [][SavedStep =>
       /\ SavedRows # {}
       /\ \A r \in SavedRows :
            /\ r.status = StatusNormal
            /\ r.hasSecurityRisk = 1 <=>
                 (saveReq'.said = 1 \/ (ProbeReturned /\ saveReq'.probe.data))
            /\ ProbeFailed => r.hasSecurityRisk = 0]_vars

\* C39 witness: a request that said 0 was probed, the reply had code 300 and a
\* result with isPass false, and the session is saved with hasSecurityRisk 1
\* and status Normal
C39_Witness ==
  /\ saveReq.pc = "done" /\ saveReq.called /\ ~saveReq.err
  /\ saveReq.said = 0
  /\ saveReq.probe = Envelope(CodeRelogin, TRUE)
  /\ \E r \in users :
       /\ r.robotId = saveReq.user.robotId /\ r.wxId = saveReq.user.wxId
       /\ r.hasSecurityRisk = 1 /\ r.status = StatusNormal

====
